---- MODULE Spec2Model ----
(***************************************************************************)
(* A model of the spack versioned-type registry (TypeSet, VersionedType,   *)
(* Version) and of the field codec that EncodeObj, DecodeObj, DecodeInto   *)
(* and the upgrade loop drive.                                             *)
(*                                                                         *)
(* Five specifications share the state:                                    *)
(*   Spec       the TypeSet: NewTypeSet, then RegisterType / LoadType /    *)
(*              EncodeKey / DecodeKey calls with names, tags and keys      *)
(*              drawn from small sets;                                     *)
(*   SpecVT     one VersionedType registered on a fresh TypeSet, then      *)
(*              AddVersion / AddVersionObj / DecodeObj / DecodeInto /      *)
(*              GetVersion calls;                                          *)
(*   SpecCodec  the same VersionedType given versions of several record    *)
(*              layouts, then EncodeObj calls, DecodeObj on the bytes      *)
(*              they return, EncodeObj on what that returns, and the       *)
(*              `_type` type's EncodeObj on a registered type;             *)
(*   SpecField  MakeTypeSpec, EncodeToBytes and DecodeFromBytes called on  *)
(*              their own, on struct types, values and decode targets      *)
(*              that no version record holds;                              *)
(*   SpecRead   a populated TypeSet under the calls that only read it:     *)
(*              EncodeObj, DecodeObj, DecodeInto, EncodeKey, DecodeKey,    *)
(*              GetVersion, HasTag and Type.                               *)
(***************************************************************************)
EXTENDS Integers, Sequences, FiniteSets, TLC

VARIABLES
    Types,        \* TypeSet.Types: name -> VersionedType
    LastTag,      \* TypeSet.LastTag (uint16)
    regOrder,     \* history: the names RegisterType created, in order
    everLoaded,   \* history: some LoadType call has installed a type
    lastOp,       \* the call made by the last step
    argName,      \* its name argument (the type it was made on)
    argTag,       \* its tag argument (LoadType, HasTag)
    argEnc,       \* its byte-string argument (DecodeObj, DecodeInto)
    argToMap,     \* DecodeObj's toMap argument
    argMap,       \* the caller's map as handed to DecodeInto
    outMap,       \* the caller's map when DecodeInto returns
    retVT,        \* the name of the VersionedType a call returned ("" = none)
    retObj,       \* the value DecodeObj returned
    retUpgraded,  \* the upgraded flag DecodeObj returned
    retErr,       \* the error a call returned ("" = nil)
    retBool,      \* HasTag's answer
    calls,        \* the upgrader invocations of the last call, in order
    argObj,       \* the value handed to EncodeObj
    argKey,       \* the key string handed to EncodeKey, as its bytes
    retEnc,       \* the bytes EncodeObj / EncodeKey returned
    encChoices,   \* how many different byte strings that call can return
    retKey,       \* the key string DecodeKey returned, as its bytes
    retVersion,   \* what GetVersion returned: <<>> (nil) or <<record>>
    argVersion,   \* AddVersion's arguments / AddVersionObj's record: <<record>>
    reEnc,        \* the bytes EncodeObj returned for the value DecodeObj returned
    reErr,        \* the error of that second EncodeObj ("" = nil)
    argSpec,      \* the TypeSpec handed to MakeTypeSpec's caller / the field
                  \* codec, as the struct type it was built from ("" = none)
    argTarget     \* the value handed to DecodeFromBytes to decode into

vars == <<Types, LastTag, regOrder, everLoaded, lastOp, argName, argTag,
          argEnc, argToMap, argMap, outMap, retVT, retObj, retUpgraded,
          retErr, retBool, calls, argObj, argKey, retEnc, encChoices,
          retKey, retVersion, argVersion, reEnc, reErr, argSpec, argTarget>>

regVars == <<Types, LastTag, regOrder, everLoaded>>

\* uint16 arithmetic: Tag, LastTag and Version are uint16 in the source.
Uint16Mod == 65536

\* ---------------------------------------------------------------------
\* Bounds and input sets
\* ---------------------------------------------------------------------

\* The longest Versions list the model builds.
MaxVersions == 3

TypeTypeName == "_type"

\* The names handed to RegisterType and carried by loaded types.
Names == {TypeTypeName, "a", "b", "c"}

\* The tags carried by externally constructed VersionedTypes.
LoadTags == {0, 1, 2, 3, 65535}

\* The version numbers handed to AddVersion / AddVersionObj; 1 and 256 are
\* the byte-swapped images of each other.
VersionNums == {0, 1, 256}

\* ---------------------------------------------------------------------
\* reflect.Kind numbers, as fieldType.Kind stores them (uint8(typ.Kind()))
\* ---------------------------------------------------------------------
Bool == 1
Uint8 == 8
Uint16 == 9
Float32 == 13
Map == 21
Ptr == 22
Slice == 23
String == 24
Struct == 25
IGNORED_FIELD == 254
STRUCT_REFERENCE == 255

\* The kinds makeFieldType turns into a leaf node (of those the model's
\* types use).
LeafKinds == {Bool, Uint8, Uint16, Float32, String}

\* ---------------------------------------------------------------------
\* The Go types the model's exemplars are built from (reflect.Type)
\* ---------------------------------------------------------------------

\* A reflect.Type: its kind, its element types (Slice, Ptr: one; Map: key
\* and value) and, for a struct, the identity of its declaration.
GoType(kind, elem, id) == [kind |-> kind, elem |-> elem, id |-> id]

TBool == GoType(Bool, <<>>, "")
TUint8 == GoType(Uint8, <<>>, "")
TUint16 == GoType(Uint16, <<>>, "")
TFloat32 == GoType(Float32, <<>>, "")
TString == GoType(String, <<>>, "")
TSlice(t) == GoType(Slice, <<t>>, "")
TPtr(t) == GoType(Ptr, <<t>>, "")
TMap(k, v) == GoType(Map, <<k, v>>, "")
TStruct(id) == GoType(Struct, <<>>, id)

\* A struct field: its name, its type and whether it carries the tag
\* `spack:"ignore"`.
Field(name, typ, ignore) == [Name |-> name, Type |-> typ, Ignore |-> ignore]

\* The exemplar types handed to AddVersion: two record layouts of fixed
\* size, the second with an ignored field between two encoded ones; one
\* with a string before a byte; and one with a pointer to a nested struct,
\* a sequence and a map.
ExemplarTypes == {"st0", "st1", "st2", "st3"}

\* The struct types handed to MakeTypeSpec beside those: one that refers to
\* itself, one that wraps it, two that refer to each other, three unnamed
\* ones (struct{ X uint8 }, struct{ Y string } and struct{ Z uint8 }) and
\* the type that holds the first two by value, one with nothing but an
\* ignored field, one with an ignored field of a struct type, and
\* struct{ Ratio float32 }.
SpecTypes ==
    {"rec", "wrap", "mA", "mB", "anonX", "anonY", "anonZ", "pair", "ign", "hid",
     "flt"}

\* Every declared struct type: those and the library's own.
StructIds ==
    ExemplarTypes \cup SpecTypes
        \cup {"VersionedType", "Version", "TypeSpec", "fieldType"}

\* The fields of each declared struct type, in declaration order.
StructFields(id) ==
    CASE id = "st0" -> << Field("Count", TUint8, FALSE) >>
      [] id = "st1" -> << Field("Count", TUint8, FALSE),
                          Field("Skip", TUint8, TRUE),
                          Field("Flag", TBool, FALSE) >>
      [] id = "st2" -> << Field("Name", TString, FALSE),
                          Field("Count", TUint8, FALSE) >>
      [] id = "st3" -> << Field("Inner", TPtr(TStruct("st0")), FALSE),
                          Field("Items", TSlice(TUint8), FALSE),
                          Field("Attrs", TMap(TUint8, TUint8), FALSE) >>
      [] id = "rec" -> << Field("Inner", TPtr(TStruct("rec")), FALSE) >>
      [] id = "wrap" -> << Field("Rec", TPtr(TStruct("rec")), FALSE) >>
      [] id = "mA" -> << Field("NameA", TString, FALSE),
                         Field("MB", TPtr(TStruct("mB")), FALSE) >>
      [] id = "mB" -> << Field("NameB", TString, FALSE),
                         Field("MA", TPtr(TStruct("mA")), FALSE) >>
      [] id = "anonX" -> << Field("X", TUint8, FALSE) >>
      [] id = "anonY" -> << Field("Y", TString, FALSE) >>
      [] id = "anonZ" -> << Field("Z", TUint8, FALSE) >>
      [] id = "pair" -> << Field("A", TStruct("anonX"), FALSE),
                           Field("B", TStruct("anonY"), FALSE) >>
      [] id = "ign" -> << Field("Skip", TUint8, TRUE) >>
      [] id = "hid" -> << Field("Hidden", TStruct("st0"), TRUE),
                          Field("Count", TUint8, FALSE) >>
      [] id = "flt" -> << Field("Ratio", TFloat32, FALSE) >>
      [] id = "VersionedType" ->
            << Field("Name", TString, FALSE),
               Field("Tag", TUint16, FALSE),
               Field("Versions", TSlice(TPtr(TStruct("Version"))), FALSE),
               Field("Dirty", TBool, TRUE) >>
      [] id = "Version" ->
            << Field("Version", TUint16, FALSE),
               Field("Spec", TPtr(TStruct("TypeSpec")), FALSE),
               Field("Exemplar", TBool, TRUE),
               Field("Upgrader", TBool, TRUE) >>
      [] id = "TypeSpec" ->
            << Field("Structs", TMap(TString, TPtr(TStruct("fieldType"))), FALSE),
               Field("Top", TPtr(TStruct("fieldType")), FALSE) >>
      [] id = "fieldType" ->
            << Field("Kind", TUint8, FALSE),
               Field("Elem", TSlice(TPtr(TStruct("fieldType"))), FALSE),
               Field("Label", TString, FALSE),
               Field("StructName", TString, FALSE) >>

\* typ.PkgPath() + "/" + typ.Name(): both are empty for an unnamed type.
StructName(id) ==
    CASE id = "st0" -> "spack/st0"
      [] id = "st1" -> "spack/st1"
      [] id = "st2" -> "spack/st2"
      [] id = "st3" -> "spack/st3"
      [] id = "rec" -> "spack/rec"
      [] id = "wrap" -> "spack/wrap"
      [] id = "mA" -> "spack/mA"
      [] id = "mB" -> "spack/mB"
      [] id = "anonX" -> "/"
      [] id = "anonY" -> "/"
      [] id = "anonZ" -> "/"
      [] id = "pair" -> "spack/pair"
      [] id = "ign" -> "spack/ign"
      [] id = "hid" -> "spack/hid"
      [] id = "flt" -> "spack/flt"
      [] id = "VersionedType" -> "spack/VersionedType"
      [] id = "Version" -> "spack/Version"
      [] id = "TypeSpec" -> "spack/TypeSpec"
      [] id = "fieldType" -> "spack/fieldType"

\* The declared struct type of that name, for a name one type bears.
IdOf(structName) == CHOOSE id \in StructIds : StructName(id) = structName

\* ---------------------------------------------------------------------
\* The type-spec builder
\* ---------------------------------------------------------------------

\* A fieldType node.
FT(kind, elem, label, structName) ==
    [Kind |-> kind, Elem |-> elem, Label |-> label, StructName |-> structName]

\* The nil *fieldType installed in the struct table while a struct's body
\* is being built.
NilFieldType == FT(0, <<>>, "", "")

\* A map with no key.
EmptyMap == [k \in {} |-> 0]

RECURSIVE makeFieldType(_, _)
RECURSIVE makeStructElems(_, _, _, _)
RECURSIVE makeStructElemsDropping(_, _, _, _)

\* A loop over a struct's fields that gives an ignored field no node at
\* all, so that the nodes after it no longer stand at their fields'
\* positions.
makeStructElemsDropping(fields, i, elems, structs) ==
    IF i > Len(fields) THEN [elems |-> elems, structs |-> structs]
    ELSE IF fields[i].Ignore
         THEN makeStructElemsDropping(fields, i + 1, elems, structs)
         ELSE LET r == makeFieldType(fields[i].Type, structs)
              IN makeStructElemsDropping(fields, i + 1,
                     Append(elems, [r.ft EXCEPT !.Label = fields[i].Name]),
                     r.structs)

\* The loop over a struct's fields: elems so far, and the struct table as
\* the recursion has left it.
makeStructElems(fields, i, elems, structs) ==
    IF i > Len(fields) THEN [elems |-> elems, structs |-> structs]
    ELSE IF fields[i].Ignore
         THEN makeStructElems(fields, i + 1,
                  Append(elems, FT(IGNORED_FIELD, <<>>, fields[i].Name, "")),
                  structs)
         ELSE LET r == makeFieldType(fields[i].Type, structs)
              IN makeStructElems(fields, i + 1,
                     Append(elems, [r.ft EXCEPT !.Label = fields[i].Name]),
                     r.structs)

\* makeFieldType returns the node and the struct table it has filled.
makeFieldType(typ, structs) ==
    IF typ.kind \in LeafKinds
    THEN [ft |-> FT(typ.kind, <<>>, "", ""), structs |-> structs]
    ELSE IF typ.kind \in {Slice, Ptr}
    THEN LET r == makeFieldType(typ.elem[1], structs)
         IN [ft |-> FT(typ.kind, <<r.ft>>, "", ""), structs |-> r.structs]
    ELSE IF typ.kind = Struct
    THEN LET structName == StructName(typ.id)
             ref == FT(STRUCT_REFERENCE, <<>>, "", structName)
         IN IF structName \in DOMAIN structs
            THEN [ft |-> ref, structs |-> structs]
            ELSE LET r == makeStructElems(StructFields(typ.id), 1, <<>>,
                              (structName :> NilFieldType) @@ structs)
                 IN [ft |-> ref,
                     structs |-> (structName :> FT(Struct, r.elems, "", ""))
                                     @@ r.structs]
    ELSE \* reflect.Map
         LET k == makeFieldType(typ.elem[1], structs)
             v == makeFieldType(typ.elem[2], k.structs)
         IN [ft |-> FT(Map, <<k.ft, v.ft>>, "", ""), structs |-> v.structs]

\* A MakeTypeSpec that leaves the exemplar's entry of the struct table as
\* the builder marks it on entry: nil, its body never built.
MakeTypeSpecUnfilled(id) ==
    LET r == makeFieldType(TStruct(id), (StructName(id) :> NilFieldType))
    IN [Structs |-> r.structs, Top |-> r.ft]

\* MakeTypeSpec(exemplar), for an exemplar that is a value of the declared
\* struct type id.
MakeTypeSpec(id) ==
    LET r == makeFieldType(TStruct(id), EmptyMap)
    IN [Structs |-> r.structs, Top |-> r.ft]

\* ---------------------------------------------------------------------
\* Values
\* ---------------------------------------------------------------------

\* An interface{} value as DecodeObj allocates, fills and returns it:
\*   kind   "nil", "map" (a map[string]interface{}) or "struct" (a pointer
\*          to a value of the declared struct type `type`); of a map, type
\*          is the Go type of its number entries: "" for the fixed-size
\*          types the decoder gives them, "int" or "float64" for the
\*          generic numbers a JSON layer gives them (a float64 is held as
\*          the count of its halves);
\*   fields its entries (map) or fields (struct), by name;
\*   ups    the version numbers of the upgraders that have returned it, in
\*          call order (an upgrader is user code: the model has it return
\*          its argument marked with the version it upgrades to).
Obj(kind, type, fields, ups) ==
    [kind |-> kind, type |-> type, fields |-> fields, ups |-> ups]

NilObj == Obj("nil", "", EmptyMap, <<>>)

\* make(map[string]interface{})
NewMapObj == Obj("map", "", EmptyMap, <<>>)

RECURSIVE ZeroOf(_)
RECURSIVE zeroFields(_, _)

\* The bits of a float32 zero.
ZeroFloat32 == << 0, 0, 0, 0 >>

\* The zero value of a Go type. A number is held as a natural (a float32
\* as the four bytes of its IEEE-754 bits, first byte first), a bool as 0
\* or 1, a string as the sequence of its bytes, a slice as the sequence of
\* its elements, a pointer as <<>> (nil) or <<pointee>>, a map as a function
\* and a struct as an Obj.
ZeroOf(typ) ==
    IF typ.kind \in {String, Slice, Ptr} THEN <<>>
    ELSE IF typ.kind = Map THEN EmptyMap
    ELSE IF typ.kind = Struct
    THEN Obj("struct", typ.id, zeroFields(StructFields(typ.id), 1), <<>>)
    ELSE IF typ.kind = Float32 THEN ZeroFloat32
    ELSE 0

\* The fields of a zero struct, from field i on.
zeroFields(fields, i) ==
    IF i > Len(fields) THEN EmptyMap
    ELSE (fields[i].Name :> ZeroOf(fields[i].Type)) @@ zeroFields(fields, i + 1)

\* reflect.New(reflect.TypeOf(exemplar)).Interface(): every field zero.
NewStructObj(id) == ZeroOf(TStruct(id))

\* A nil interface{} exemplar, a nil UpgradeFunc, and the one non-nil one.
NilExemplar == ""
NilUpgrader == "nil"
SomeUpgrader == "func"

\* &Version{ vers, spec, exemplar, upgrader }. Spec is a *TypeSpec that is
\* never written after MakeTypeSpec built it: the record holds it by the
\* type it was built from, and SpecOf is the TypeSpec pointed to.
MkVersion(vers, spec, exemplar, upgrader) ==
    [Version |-> vers, Spec |-> spec, Exemplar |-> exemplar, Upgrader |-> upgrader]

SpecOf(v) == MakeTypeSpec(v.Spec)

\* ---------------------------------------------------------------------
\* The field codec, decoding side
\* ---------------------------------------------------------------------

\* The outcome of a decode: ok = FALSE is a panic; val is the value
\* decoded (a leaf) or the target as the decode left it; rest is what the
\* reader has not consumed.
Decoded(ok, val, rest) == [ok |-> ok, val |-> val, rest |-> rest]

\* The leaf cases of decodeFieldInner: binary.Read of a fixed-size value,
\* and the bool byte.
decodeLeaf(kind, buf) ==
    IF kind = Uint8
    THEN IF Len(buf) >= 1 THEN Decoded(TRUE, buf[1], Tail(buf))
         ELSE Decoded(FALSE, 0, buf)
    ELSE IF kind = Uint16
    THEN IF Len(buf) >= 2
         THEN Decoded(TRUE, buf[1] * 256 + buf[2], Tail(Tail(buf)))
         ELSE Decoded(FALSE, 0, <<>>)
    ELSE IF kind = Float32
    THEN IF Len(buf) >= 4
         THEN Decoded(TRUE, SubSeq(buf, 1, 4), SubSeq(buf, 5, Len(buf)))
         ELSE Decoded(FALSE, ZeroFloat32, <<>>)
    ELSE \* Bool
         IF Len(buf) >= 1 /\ buf[1] \in {0, 1}
         THEN Decoded(TRUE, buf[1], Tail(buf))
         ELSE Decoded(FALSE, 0, IF Len(buf) >= 1 THEN Tail(buf) ELSE buf)

RECURSIVE readUvarint(_, _, _)

\* binary.ReadUvarint: seven bits a byte, low bits first, the high bit set
\* on every byte but the last; the end of the input is an error.
readUvarint(buf, mult, acc) ==
    IF buf = <<>> THEN Decoded(FALSE, 0, buf)
    ELSE IF buf[1] < 128 THEN Decoded(TRUE, acc + buf[1] * mult, Tail(buf))
    ELSE readUvarint(Tail(buf), mult * 128, acc + (buf[1] - 128) * mult)

ReadUvarint(buf) == readUvarint(buf, 1, 0)

\* The bytes string(runes) gives U+FFFD, the rune ReadRune returns for a
\* byte that starts no UTF-8 encoding.
RuneError == <<239, 191, 189>>

\* reader.ReadRune() on a reader that holds buf (not empty): the number of
\* bytes it consumes and the bytes the rune has in the decoded string. A
\* well-formed encoding is consumed whole and kept; of anything else one
\* byte is consumed and becomes U+FFFD.
ReadRune(buf) ==
    LET b == buf[1]
        cont(i) == Len(buf) >= i /\ buf[i] >= 128 /\ buf[i] <= 191
        second(lo, hi) == Len(buf) >= 2 /\ buf[2] >= lo /\ buf[2] <= hi
        whole(k) == [size |-> k, out |-> SubSeq(buf, 1, k)]
    IN IF b < 128 THEN whole(1)
       ELSE IF b >= 194 /\ b <= 223 /\ cont(2) THEN whole(2)
       ELSE IF /\ \/ b = 224 /\ second(160, 191)
                  \/ b \in (225..236) \cup {238, 239} /\ second(128, 191)
                  \/ b = 237 /\ second(128, 159)
               /\ cont(3)
       THEN whole(3)
       ELSE IF /\ \/ b = 240 /\ second(144, 191)
                  \/ b \in 241..243 /\ second(128, 191)
                  \/ b = 244 /\ second(128, 143)
               /\ cont(3)
               /\ cont(4)
       THEN whole(4)
       ELSE [size |-> 1, out |-> RuneError]

RECURSIVE readRunes(_, _, _, _)

\* The loop of the string case: runes are read until the bytes consumed
\* reach the declared length.
readRunes(byteLen, byteCount, out, buf) ==
    IF byteCount >= byteLen THEN Decoded(TRUE, out, buf)
    ELSE IF buf = <<>> THEN Decoded(FALSE, <<>>, buf)
    ELSE LET r == ReadRune(buf)
         IN readRunes(byteLen, byteCount + r.size, out \o r.out,
                      SubSeq(buf, r.size + 1, Len(buf)))

\* The string case of decodeFieldInner.
decodeString(buf) ==
    LET n == ReadUvarint(buf)
    IN IF ~n.ok THEN Decoded(FALSE, <<>>, n.rest)
       ELSE readRunes(n.val, 0, <<>>, n.rest)

RECURSIVE CellKind(_)

\* The kind of the cell createMapValue makes for a node: pointers are
\* looked through.
CellKind(ft) == IF ft.Kind = Ptr THEN CellKind(ft.Elem[1]) ELSE ft.Kind

RECURSIVE createMapValue(_)

\* createMapValue(ft): the fresh cell a value is decoded into when the
\* target is an attribute map.
createMapValue(ft) ==
    IF ft.Kind \in {String, Slice} THEN <<>>
    ELSE IF ft.Kind = Map THEN EmptyMap
    ELSE IF ft.Kind = Ptr THEN createMapValue(ft.Elem[1])
    ELSE IF ft.Kind = STRUCT_REFERENCE THEN NewMapObj
    ELSE IF ft.Kind = Float32 THEN ZeroFloat32
    ELSE 0

\* reflect.New of the declared type a node was built from: its zero value.
ZeroFT(ft) ==
    IF ft.Kind \in {String, Slice, Ptr} THEN <<>>
    ELSE IF ft.Kind = Map THEN EmptyMap
    ELSE IF ft.Kind = STRUCT_REFERENCE THEN NewStructObj(IdOf(ft.StructName))
    ELSE IF ft.Kind = Float32 THEN ZeroFloat32
    ELSE 0

RECURSIVE decodeFieldInner(_, _, _, _, _)
RECURSIVE decodeElems(_, _, _, _, _, _)
RECURSIVE decodePairs(_, _, _, _, _, _)
RECURSIVE decodeStructFields(_, _, _, _, _)

\* The loop of the slice case: n elements, each decoded into a fresh value
\* of the element type (typed) or into a fresh cell.
decodeElems(typed, elemFt, structs, n, out, buf) ==
    IF Len(out) = n THEN Decoded(TRUE, out, buf)
    ELSE LET fresh == IF typed THEN ZeroFT(elemFt) ELSE createMapValue(elemFt)
             r == decodeFieldInner(typed, fresh, elemFt, structs, buf)
         IN IF ~r.ok THEN Decoded(FALSE, out, r.rest)
            ELSE decodeElems(typed, elemFt, structs, n, Append(out, r.val), r.rest)

\* The loop of the map case on a map of a declared type: n pairs, each key
\* and value decoded into a fresh value and stored.
decodePairs(keyFt, valFt, structs, n, m, buf) ==
    IF n = 0 THEN Decoded(TRUE, m, buf)
    ELSE LET k == decodeFieldInner(TRUE, ZeroFT(keyFt), keyFt, structs, buf)
             v == decodeFieldInner(TRUE, ZeroFT(valFt), valFt, structs, k.rest)
         IN IF ~k.ok THEN Decoded(FALSE, m, k.rest)
            ELSE IF ~v.ok THEN Decoded(FALSE, m, v.rest)
            ELSE decodePairs(keyFt, valFt, structs, n - 1,
                             (k.val :> v.val) @@ m, v.rest)

\* The loops of the STRUCT_REFERENCE case over structFt.Elem: a map target
\* gets each non-ignored field under its label, decoded into a fresh cell;
\* a struct target gets it in its own i-th field. A panic leaves the target
\* as filled so far.
decodeStructFields(obj, elems, i, structs, buf) ==
    IF i > Len(elems) THEN Decoded(TRUE, obj, buf)
    ELSE IF elems[i].Kind = IGNORED_FIELD
    THEN decodeStructFields(obj, elems, i + 1, structs, buf)
    ELSE LET key == IF obj.kind = "map" THEN elems[i].Label
                    ELSE StructFields(obj.type)[i].Name
             r == IF obj.kind = "map"
                  THEN decodeFieldInner(FALSE, createMapValue(elems[i]),
                                        elems[i], structs, buf)
                  ELSE decodeFieldInner(TRUE, obj.fields[key],
                                        elems[i], structs, buf)
         IN IF ~r.ok THEN Decoded(FALSE, obj, r.rest)
            ELSE decodeStructFields(
                     [obj EXCEPT !.fields = (key :> r.val) @@ @],
                     elems, i + 1, structs, r.rest)

\* decodeFieldInner(field, ft, structs, reader). field is what the pointer
\* handed in points to; typed tells whether that is a value of the declared
\* type the node was built from (TRUE) or a cell of createMapValue / an
\* attribute map (FALSE), which is what the reflect calls of each case
\* depend on.
decodeFieldInner(typed, field, ft, structs, buf) ==
    IF ft.Kind \in {Uint8, Uint16, Float32, Bool} THEN decodeLeaf(ft.Kind, buf)
    ELSE IF ft.Kind = String THEN decodeString(buf)
    ELSE IF ft.Kind = Slice
    THEN LET n == ReadUvarint(buf)
         IN IF ~n.ok THEN Decoded(FALSE, field, n.rest)
            ELSE decodeElems(typed, ft.Elem[1], structs, n.val, <<>>, n.rest)
    ELSE IF ft.Kind = Map
    THEN LET n == ReadUvarint(buf)
         IN IF ~n.ok THEN Decoded(FALSE, field, n.rest)
            ELSE IF typed
            THEN decodePairs(ft.Elem[1], ft.Elem[2], structs, n.val, field, n.rest)
            \* a map[interface{}]interface{} cell: the key pointer is a
            \* *interface{}, which no case can decode into
            ELSE Decoded(n.val = 0, field, n.rest)
    ELSE IF ft.Kind = Ptr
    THEN IF buf = <<>> THEN Decoded(FALSE, field, buf)
         ELSE IF buf[1] = 0 THEN Decoded(TRUE, field, Tail(buf))
         ELSE IF typed
         THEN LET r == decodeFieldInner(TRUE,
                           IF field = <<>> THEN ZeroFT(ft.Elem[1]) ELSE field[1],
                           ft.Elem[1], structs, Tail(buf))
              IN Decoded(r.ok, << r.val >>, r.rest)
         \* a cell is no pointer to a pointer: target.IsNil() panics on a
         \* number, bool or string cell, and a slice or map cell is handed
         \* on by value, which their cases cannot take
         ELSE IF CellKind(ft) = STRUCT_REFERENCE
         THEN decodeFieldInner(FALSE, field, ft.Elem[1], structs, Tail(buf))
         ELSE Decoded(FALSE, field, Tail(buf))
    ELSE IF ft.Kind = IGNORED_FIELD THEN Decoded(TRUE, field, buf)
    ELSE IF ft.Kind = STRUCT_REFERENCE
    THEN IF field.kind = "struct" /\ StructName(field.type) # ft.StructName
         THEN Decoded(FALSE, field, buf)
         ELSE decodeStructFields(field, structs[ft.StructName].Elem, 1, structs, buf)
    ELSE Decoded(FALSE, field, buf)

\* SafeDecodeField: the panic becomes an error.
SafeDecodeField(obj, ts, buf) ==
    decodeFieldInner(obj.kind # "map", obj, ts.Top, ts.Structs, buf)

\* ---------------------------------------------------------------------
\* VersionedType: the Versions list
\* ---------------------------------------------------------------------

\* &VersionedType{ Name, Tag, Versions, Dirty }
MkVersionedType(name, tag, versions, dirty) ==
    [Name |-> name, Tag |-> tag, Versions |-> versions, Dirty |-> dirty]

\* sort.Interface of VersionedType: Less orders by descending version.
Less(versions, i, j) == versions[i].Version > versions[j].Version

\* A Swap without the temporary: the record at i is overwritten and the
\* one at j stays.
SwapOverwriting(versions, i, j) ==
    [versions EXCEPT ![i] = versions[j]]

Swap(versions, i, j) ==
    [versions EXCEPT ![i] = versions[j], ![j] = versions[i]]

RECURSIVE insertionSortInner(_, _)
RECURSIVE insertionSort(_, _)

\* The inner loop of the library's insertion sort: element j moves left
\* while it is Less than its left neighbour.
insertionSortInner(versions, j) ==
    IF j > 1 /\ Less(versions, j, j - 1)
    THEN insertionSortInner(Swap(versions, j, j - 1), j - 1)
    ELSE versions

\* sort.Sort(vt): for a list this short the library sorts by insertion.
insertionSort(versions, i) ==
    IF i > Len(versions) THEN versions
    ELSE insertionSort(insertionSortInner(versions, i), i + 1)

\* AddVersionObj: append, then sort.
addVersionObj(versions, v) == insertionSort(Append(versions, v), 2)

\* A getVersion that trusts the search: it returns the record the search
\* stops at, whatever its number.
getVersionNearest(versions, v) ==
    LET idx == CHOOSE k \in 1..(Len(versions) + 1) :
                  /\ \A j \in 1..(k - 1) : versions[j].Version > v
                  /\ k <= Len(versions) => versions[k].Version <= v
    IN IF idx <= Len(versions) THEN idx ELSE 0

RECURSIVE Search(_, _, _, _)

\* sort.Search(n, cmp) with cmp(i) = (Versions[i].Version <= v): the
\* library's binary search, on 1-based indexes (i..j is the open range).
Search(versions, v, i, j) ==
    IF i >= j THEN i
    ELSE LET h == (i + j) \div 2
         IN IF ~(versions[h].Version <= v)
            THEN Search(versions, v, h + 1, j)
            ELSE Search(versions, v, i, h)

\* getVersion: the index of the record numbered v (1-based; 0 = not found).
getVersion(versions, v) ==
    LET idx == Search(versions, v, 1, Len(versions) + 1)
    IN IF idx <= Len(versions) /\ versions[idx].Version = v THEN idx ELSE 0

\* An AddVersion that does not fill a hole but inserts a second record of
\* the number.
addVersionInsert(vt, vers, exemplar, upgrader) ==
    LET idx == getVersion(vt.Versions, vers)
    IN IF idx # 0 /\ ~( vt.Versions[idx].Exemplar = NilExemplar
                        /\ vt.Versions[idx].Upgrader = NilUpgrader )
       THEN [vt |-> vt, err |-> "Version already exists"]
       ELSE [vt |-> [vt EXCEPT
                        !.Versions = addVersionObj(vt.Versions,
                            MkVersion(vers, exemplar, exemplar, upgrader)),
                        !.Dirty = TRUE],
             err |-> ""]

\* AddVersion on the VersionedType vt: the VersionedType it leaves, and the
\* error it returns.
addVersion(vt, vers, exemplar, upgrader) ==
    LET idx == getVersion(vt.Versions, vers)
    IN IF idx # 0
       THEN IF vt.Versions[idx].Exemplar = NilExemplar
               /\ vt.Versions[idx].Upgrader = NilUpgrader
            THEN [vt |-> [vt EXCEPT !.Versions[idx].Exemplar = exemplar,
                                    !.Versions[idx].Upgrader = upgrader],
                  err |-> ""]
            ELSE [vt |-> vt, err |-> "Version already exists"]
       ELSE [vt |-> [vt EXCEPT
                        !.Versions = addVersionObj(vt.Versions,
                            MkVersion(vers, exemplar, exemplar, upgrader)),
                        !.Dirty = TRUE],
             err |-> ""]

\* ---------------------------------------------------------------------
\* TypeSet
\* ---------------------------------------------------------------------

\* HasTag: some type of the set carries the tag.
HasTag(types, tag) == \E n \in DOMAIN types : types[n].Tag = tag

\* RegisterType as the first revisions of the library had it: the tag is
\* drawn and LastTag advanced before the name is looked up, so registering
\* a name again uses up a tag.
registerTypeEager(types, lastTag, name) ==
    LET tag == (lastTag + 1) % Uint16Mod
    IN IF name \in DOMAIN types
       THEN [types |-> types, lastTag |-> tag, vt |-> name]
       ELSE [types |-> (name :> MkVersionedType(name, tag, <<>>, TRUE)) @@ types,
             lastTag |-> tag,
             vt |-> name]

\* RegisterType on the set (types, lastTag): the set it leaves and the
\* name under which the returned VersionedType is held.
registerType(types, lastTag, name) ==
    IF name \in DOMAIN types
    THEN [types |-> types, lastTag |-> lastTag, vt |-> name]
    ELSE LET tag == (lastTag + 1) % Uint16Mod
         IN [types |-> (name :> MkVersionedType(name, tag, <<>>, TRUE)) @@ types,
             lastTag |-> tag,
             vt |-> name]

\* A LoadType that sets LastTag to the tag of the type it installs, also
\* when that tag is the lower one.
loadTypeLastLoaded(types, lastTag, vt) ==
    IF HasTag(types, vt.Tag)
    THEN [types |-> types, lastTag |-> lastTag, err |-> "Tag already exists"]
    ELSE IF vt.Name \in DOMAIN types
    THEN [types |-> types, lastTag |-> lastTag, err |-> "Name already exists"]
    ELSE [types |-> (vt.Name :> vt) @@ types, lastTag |-> vt.Tag, err |-> ""]

\* LoadType on the set (types, lastTag): the set it leaves and the error.
loadType(types, lastTag, vt) ==
    IF HasTag(types, vt.Tag)
    THEN [types |-> types, lastTag |-> lastTag, err |-> "Tag already exists"]
    ELSE IF vt.Name \in DOMAIN types
    THEN [types |-> types, lastTag |-> lastTag, err |-> "Name already exists"]
    ELSE [types |-> (vt.Name :> vt) @@ types,
          lastTag |-> IF vt.Tag > lastTag THEN vt.Tag ELSE lastTag,
          err |-> ""]

\* NewTypeSet as the first revision of the library had it: an empty set,
\* without the reserved type.
NewTypeSetBare == [types |-> EmptyMap, lastTag |-> 0]

\* NewTypeSet: an empty set, then RegisterType("_type") and
\* AddVersion(0, VersionedType{}, nil) on what it returns.
NewTypeSet ==
    LET r == registerType(EmptyMap, 0, TypeTypeName)
        a == addVersion(r.types[TypeTypeName], 0, "VersionedType", NilUpgrader)
    IN [types |-> (TypeTypeName :> a.vt) @@ r.types, lastTag |-> r.lastTag]

\* ---------------------------------------------------------------------
\* Tagged keys. A Go string is held as the sequence of its bytes;
\* []byte(key) and string(bytes) copy them.
\* ---------------------------------------------------------------------

\* binary.Write(buf, binary.BigEndian, n) for a uint16 n.
BigEndian16(n) == << n \div 256, n % 256 >>

\* A key encoder that writes the tag low byte first.
encodeKeyLittleEndian(tag, key) == << tag % 256, tag \div 256 >> \o key

\* EncodeKey(tag, key): the tag, big-endian, then the key's bytes.
encodeKey(tag, key) == BigEndian16(tag) \o key

\* DecodeKey(encKey): string(encKey[2:]).
decodeKey(encKey) == SubSeq(encKey, 3, Len(encKey))

\* ---------------------------------------------------------------------
\* The field codec, encoding side
\* ---------------------------------------------------------------------

\* The bytes of the Go strings the library itself makes: type names, field
\* labels and struct names.
Bytes(s) ==
    CASE s = "" -> <<>>
      [] s = "_type" -> << 95, 116, 121, 112, 101 >>
      [] s = "a" -> << 97 >>
      [] s = "Count" -> << 67, 111, 117, 110, 116 >>
      [] s = "Skip" -> << 83, 107, 105, 112 >>
      [] s = "Flag" -> << 70, 108, 97, 103 >>
      [] s = "Name" -> << 78, 97, 109, 101 >>
      [] s = "Inner" -> << 73, 110, 110, 101, 114 >>
      [] s = "Items" -> << 73, 116, 101, 109, 115 >>
      [] s = "Attrs" -> << 65, 116, 116, 114, 115 >>
      [] s = "Tag" -> << 84, 97, 103 >>
      [] s = "Versions" -> << 86, 101, 114, 115, 105, 111, 110, 115 >>
      [] s = "Dirty" -> << 68, 105, 114, 116, 121 >>
      [] s = "Version" -> << 86, 101, 114, 115, 105, 111, 110 >>
      [] s = "Spec" -> << 83, 112, 101, 99 >>
      [] s = "Exemplar" -> << 69, 120, 101, 109, 112, 108, 97, 114 >>
      [] s = "Upgrader" -> << 85, 112, 103, 114, 97, 100, 101, 114 >>
      [] s = "Structs" -> << 83, 116, 114, 117, 99, 116, 115 >>
      [] s = "Top" -> << 84, 111, 112 >>
      [] s = "Kind" -> << 75, 105, 110, 100 >>
      [] s = "Elem" -> << 69, 108, 101, 109 >>
      [] s = "Label" -> << 76, 97, 98, 101, 108 >>
      [] s = "StructName" -> << 83, 116, 114, 117, 99, 116, 78, 97, 109, 101 >>
      [] s = "spack/st0" -> << 115, 112, 97, 99, 107, 47, 115, 116, 48 >>
      [] s = "spack/st1" -> << 115, 112, 97, 99, 107, 47, 115, 116, 49 >>
      [] s = "spack/st2" -> << 115, 112, 97, 99, 107, 47, 115, 116, 50 >>
      [] s = "spack/st3" -> << 115, 112, 97, 99, 107, 47, 115, 116, 51 >>
      [] s = "spack/VersionedType" -> << 115, 112, 97, 99, 107, 47, 86, 101, 114, 115, 105, 111, 110, 101, 100, 84, 121, 112, 101 >>
      [] s = "spack/Version" -> << 115, 112, 97, 99, 107, 47, 86, 101, 114, 115, 105, 111, 110 >>
      [] s = "spack/TypeSpec" -> << 115, 112, 97, 99, 107, 47, 84, 121, 112, 101, 83, 112, 101, 99 >>
      [] s = "spack/fieldType" -> << 115, 112, 97, 99, 107, 47, 102, 105, 101, 108, 100, 84, 121, 112, 101 >>

RECURSIVE Uvarint(_)

\* binary.PutUvarint: seven bits a byte, low bits first, the high bit set
\* on every byte but the last.
Uvarint(n) ==
    IF n < 128 THEN << n >> ELSE << 128 + (n % 128) >> \o Uvarint(n \div 128)

\* writeLength(length, writer)
writeLength(length) == Uvarint(length)

\* binary.Write, big endian, of a value of the fixed-size kind: a uint8, a
\* uint16, or a float32 (held as its bits).
binaryWrite(field, kind) ==
    IF kind = Uint8 THEN << field >>
    ELSE IF kind = Uint16 THEN BigEndian16(field)
    ELSE field

\* encodeFixedSize on a value of the node's own type.
encodeFixedSize(field, kind) == binaryWrite(field, kind)

\* The number of values of an integer kind: 2^8 or 2^16.
KindRange(kind) == IF kind = Uint8 THEN 256 ELSE Uint16Mod

\* convertIntToFixedSize: uint8(field.(int)) / uint16(field.(int)) keep the
\* low bits.
convertIntToFixedSize(field, kind) == field % KindRange(kind)

\* int(f) of a float64 held as its count of halves: towards zero.
IntOfFloat(field) ==
    IF field >= 0 THEN field \div 2 ELSE 0 - ((0 - field) \div 2)

\* convertFloatToFixedSize: uint8(int(field.(float64))) and the like.
convertFloatToFixedSize(field, kind) ==
    convertIntToFixedSize(IntOfFloat(field), kind)

\* The type switch at the head of encodeFixedSize, for a number of the
\* generic Go type goType under an integer node: the value binary.Write is
\* given.
typeSwitch(goType, field, kind) ==
    IF goType = "int" THEN convertIntToFixedSize(field, kind)
    ELSE convertFloatToFixedSize(field, kind)

RECURSIVE Log2(_)

\* The position of the highest set bit of n > 0.
Log2(n) == IF n < 2 THEN 0 ELSE 1 + Log2(n \div 2)

RECURSIVE Pow2(_)

Pow2(n) == IF n = 0 THEN 1 ELSE 2 * Pow2(n - 1)

\* binary.Write of a float64 held as its count of halves (fewer than 2^20
\* of them): sign, the eleven bits of the exponent, the top twenty bits of
\* the fraction, and thirty-two bits of zero.
Float64Bits(field) ==
    IF field = 0 THEN << 0, 0, 0, 0, 0, 0, 0, 0 >>
    ELSE LET abs == IF field < 0 THEN 0 - field ELSE field
             p == Log2(abs)
             e == 1022 + p
             frac == (abs - Pow2(p)) * Pow2(20 - p)
         IN << (IF field < 0 THEN 128 ELSE 0) + e \div 16,
               (e % 16) * 16 + frac \div 65536,
               (frac \div 256) % 256,
               frac % 256, 0, 0, 0, 0 >>

\* encodeFixedSize on a generic number: the conversions have a case for
\* each integer kind and none for the float kinds, where the value stays
\* what it was; binary.Write takes a float64 and refuses an int.
encodeGeneric(goType, field, kind) ==
    IF kind \in {Uint8, Uint16}
    THEN { binaryWrite(typeSwitch(goType, field, kind), kind) }
    ELSE IF goType = "float64" THEN { Float64Bits(field) }
    ELSE {}

\* The outcome of an encode is the set of the byte strings the writer can
\* have been given, one for each order in which the maps met on the way
\* can be iterated; a panic is the empty set.
EncPanic == {}

RECURSIVE encodeFieldInner(_, _, _, _)
RECURSIVE Concat(_)
RECURSIVE Orderings(_)

\* The writes of a loop, one after another: parts holds << i, the strings
\* step i can write >>. A panic in any step is a panic.
Concat(parts) ==
    IF parts = {} THEN { <<>> }
    ELSE LET first == CHOOSE p \in parts : \A q \in parts : p[1] <= q[1]
         IN { b \o rest : b \in first[2], rest \in Concat(parts \ {first}) }

\* The writes of a loop over val.MapKeys(), whose order Go leaves
\* unspecified: pairs holds, for each key, the strings its key and value
\* can be written as, and every order of the keys is taken.
Orderings(pairs) ==
    IF pairs = {} THEN { <<>> }
    ELSE UNION { { b \o rest : b \in pair, rest \in Orderings(pairs \ {pair}) } :
                 pair \in pairs }

\* The loop of the slice case.
encodeElems(typed, field, elemFt, structs) ==
    Concat({ << i, encodeFieldInner(typed, field[i], elemFt, structs) >> :
             i \in 1..Len(field) })

\* The loop of the map case: each key is written, then its value.
encodePairs(typed, field, ft, structs) ==
    LET written == { { k \o v : k \in encodeFieldInner(typed, key, ft.Elem[1], structs),
                               v \in encodeFieldInner(typed, field[key], ft.Elem[2], structs) } :
                     key \in DOMAIN field }
    IN IF EncPanic \in written THEN EncPanic ELSE Orderings(written)

\* The loops of the STRUCT_REFERENCE case over structFt.Elem: of a map the
\* value under each non-ignored field's label is encoded, a missing key
\* giving a nil interface, which only the pointer case accepts; of a
\* struct its own i-th field. A generic number reaches encodeFixedSize
\* under a fixed-size node and is narrowed there; every other case panics
\* on it (a failed type assertion or reflect call).
encodeStructFields(obj, elems, structs) ==
    Concat({ << i,
                IF obj.kind = "map"
                THEN IF elems[i].Label \in DOMAIN obj.fields
                     THEN IF obj.type = ""
                          THEN encodeFieldInner(FALSE, obj.fields[elems[i].Label],
                                                elems[i], structs)
                          ELSE IF elems[i].Kind \in {Uint8, Uint16, Float32}
                          THEN encodeGeneric(obj.type,
                                             obj.fields[elems[i].Label],
                                             elems[i].Kind)
                          ELSE EncPanic
                     ELSE IF elems[i].Kind = Ptr THEN { <<0>> }
                     ELSE EncPanic
                ELSE encodeFieldInner(TRUE,
                         obj.fields[StructFields(obj.type)[i].Name],
                         elems[i], structs) >> :
             i \in { j \in 1..Len(elems) : elems[j].Kind # IGNORED_FIELD } })

\* encodeFieldInner(field, ft, structs, writer). typed tells whether field
\* is a value of the declared type the node was built from (TRUE) or a
\* value taken out of an attribute map (FALSE), where a pointer node finds
\* no pointer: val.IsNil() panics on a number, bool or string, and a slice
\* or map made by the decoder is never nil.
encodeFieldInner(typed, field, ft, structs) ==
    CASE ft.Kind \in {Uint8, Uint16, Float32} ->
            { encodeFixedSize(field, ft.Kind) }
      [] ft.Kind = Bool -> { IF field = 1 THEN <<1>> ELSE <<0>> }
      [] ft.Kind = String -> { writeLength(Len(field)) \o field }
      [] ft.Kind = Slice ->
            { writeLength(Len(field)) \o b :
                b \in encodeElems(typed, field, ft.Elem[1], structs) }
      [] ft.Kind = Map ->
            { writeLength(Cardinality(DOMAIN field)) \o b :
                b \in encodePairs(typed, field, ft, structs) }
      [] ft.Kind = Ptr /\ typed ->
            IF field = <<>> THEN { <<0>> }
            ELSE { <<1>> \o b :
                     b \in encodeFieldInner(TRUE, field[1], ft.Elem[1], structs) }
      [] ft.Kind = Ptr /\ ~typed ->
            IF CellKind(ft) \in {Slice, Map, STRUCT_REFERENCE}
            THEN { <<1>> \o b :
                     b \in encodeFieldInner(FALSE, field, ft.Elem[1], structs) }
            ELSE EncPanic
      [] ft.Kind = IGNORED_FIELD -> { <<>> }
      [] ft.Kind = STRUCT_REFERENCE ->
            IF field.kind = "nil" THEN EncPanic
            ELSE IF field.kind = "struct" /\ StructName(field.type) # ft.StructName
            THEN EncPanic
            ELSE encodeStructFields(field, structs[ft.StructName].Elem, structs)
      [] OTHER -> EncPanic

\* SafeEncodeField: the panic becomes an error.
SafeEncodeField(field, ts) == encodeFieldInner(TRUE, field, ts.Top, ts.Structs)

\* ---------------------------------------------------------------------
\* VersionedType: encoding
\* ---------------------------------------------------------------------

\* What EncodeObj returns: an error and no bytes, or no error and one of
\* the byte strings in outs.
EncRet(err, outs) == [err |-> err, outs |-> outs]

\* EncodeObj written to take the oldest record instead of the newest.
encodeObjOldest(versions, obj) ==
    IF Len(versions) = 0 THEN EncRet("No versions registered", {})
    ELSE LET v == versions[Len(versions)]
             bodies == SafeEncodeField(obj, SpecOf(v))
         IN IF bodies = EncPanic THEN EncRet("Encoding failed", {})
            ELSE EncRet("", { BigEndian16(v.Version) \o body : body \in bodies })

\* vt.EncodeObj(obj), on the Versions list of vt.
encodeObj(versions, obj) ==
    IF Len(versions) = 0 THEN EncRet("No versions registered", {})
    ELSE LET v == versions[1]
             bodies == SafeEncodeField(obj, SpecOf(v))
         IN IF bodies = EncPanic THEN EncRet("Encoding failed", {})
            ELSE EncRet("", { BigEndian16(v.Version) \o body : body \in bodies })

RECURSIVE ValueOfFieldType(_)

\* The Go value of a *fieldType of a type spec, as the encoder walks it.
ValueOfFieldType(ft) ==
    Obj("struct", "fieldType",
        [Kind |-> ft.Kind,
         Elem |-> [i \in 1..Len(ft.Elem) |-> << ValueOfFieldType(ft.Elem[i]) >>],
         Label |-> Bytes(ft.Label),
         StructName |-> Bytes(ft.StructName)],
        <<>>)

\* The Go value of a *TypeSpec: Structs is a Go map from struct names.
ValueOfTypeSpec(ts) ==
    Obj("struct", "TypeSpec",
        [Structs |-> [b \in { Bytes(n) : n \in DOMAIN ts.Structs } |->
                        << ValueOfFieldType(
                               ts.Structs[CHOOSE n \in DOMAIN ts.Structs : Bytes(n) = b]) >>],
         Top |-> << ValueOfFieldType(ts.Top) >>],
        <<>>)

\* The Go value of a *Version; the two ignored fields are never read.
ValueOfVersion(v) ==
    Obj("struct", "Version",
        [Version |-> v.Version,
         Spec |-> << ValueOfTypeSpec(SpecOf(v)) >>,
         Exemplar |-> 0,
         Upgrader |-> 0],
        <<>>)

\* The Go value of a *VersionedType.
ValueOfVersionedType(vt) ==
    Obj("struct", "VersionedType",
        [Name |-> Bytes(vt.Name),
         Tag |-> vt.Tag,
         Versions |-> [i \in 1..Len(vt.Versions) |-> << ValueOfVersion(vt.Versions[i]) >>],
         Dirty |-> IF vt.Dirty THEN 1 ELSE 0],
        <<>>)

\* ---------------------------------------------------------------------
\* VersionedType: decoding and the upgrade loop
\* ---------------------------------------------------------------------

\* binary.Read(buf, binary.BigEndian, &version): with fewer than two bytes
\* the read fails, its error is dropped and version stays 0.
ReadVersion(enc) == IF Len(enc) >= 2 THEN enc[1] * 256 + enc[2] ELSE 0

\* What the buffer still holds after that read.
AfterVersion(enc) == IF Len(enc) >= 2 THEN SubSeq(enc, 3, Len(enc)) ELSE <<>>

\* The upgrader of the record numbered vers, called on obj and returning
\* no error.
Upgrade(vers, obj) == [obj EXCEPT !.ups = Append(@, vers)]

\* What DecodeObj returns, with the upgrader calls it made.
Ret(obj, upgraded, err, made) ==
    [obj |-> obj, upgraded |-> upgraded, err |-> err, calls |-> made]

RECURSIVE upgradeLoopUnchained(_, _, _, _, _)

\* An upgrade loop that hands every upgrader the object as first decoded
\* and drops what the upgraders return.
upgradeLoopUnchained(versions, vIdx, obj, made, failAt) ==
    IF vIdx > 1
    THEN LET next == versions[vIdx - 1]
         IN IF next.Upgrader = NilUpgrader
            THEN Ret(NilObj, FALSE, "No upgrader", made)
            ELSE IF failAt = Len(made) + 1
            THEN Ret(NilObj, FALSE, "Upgrader error",
                     Append(made, [version |-> next.Version, arg |-> obj,
                                   ret |-> NilObj, err |-> TRUE]))
            ELSE upgradeLoopUnchained(versions, vIdx - 1, obj,
                     Append(made, [version |-> next.Version, arg |-> obj,
                                   ret |-> Upgrade(next.Version, obj),
                                   err |-> FALSE]),
                     failAt)
    ELSE Ret(obj, TRUE, "", made)

RECURSIVE upgradeLoopLenient(_, _, _, _, _)

\* An upgrade loop that steps over a version without upgrader and carries
\* on after an upgrader's error with the object it had.
upgradeLoopLenient(versions, vIdx, obj, made, failAt) ==
    IF vIdx > 1
    THEN LET next == versions[vIdx - 1]
         IN IF next.Upgrader = NilUpgrader
            THEN upgradeLoopLenient(versions, vIdx - 1, obj, made, failAt)
            ELSE IF failAt = Len(made) + 1
            THEN upgradeLoopLenient(versions, vIdx - 1, obj,
                     Append(made, [version |-> next.Version, arg |-> obj,
                                   ret |-> NilObj, err |-> TRUE]),
                     failAt)
            ELSE upgradeLoopLenient(versions, vIdx - 1, Upgrade(next.Version, obj),
                     Append(made, [version |-> next.Version, arg |-> obj,
                                   ret |-> Upgrade(next.Version, obj),
                                   err |-> FALSE]),
                     failAt)
    ELSE Ret(obj, TRUE, "", made)

RECURSIVE upgradeLoop(_, _, _, _, _)

\* The loop of upgradeObj, from the record at vIdx (1-based) towards the
\* head of the list. failAt is the ordinal of the upgrader call that
\* returns an error (0: none does).
upgradeLoop(versions, vIdx, obj, made, failAt) ==
    IF vIdx > 1
    THEN LET next == versions[vIdx - 1]
         IN IF next.Upgrader = NilUpgrader
            THEN Ret(NilObj, FALSE, "No upgrader", made)
            ELSE IF failAt = Len(made) + 1
            THEN Ret(NilObj, FALSE, "Upgrader error",
                     Append(made, [version |-> next.Version, arg |-> obj,
                                   ret |-> NilObj, err |-> TRUE]))
            ELSE upgradeLoop(versions, vIdx - 1, Upgrade(next.Version, obj),
                     Append(made, [version |-> next.Version, arg |-> obj,
                                   ret |-> Upgrade(next.Version, obj),
                                   err |-> FALSE]),
                     failAt)
    ELSE Ret(obj, TRUE, "", made)

upgradeObj(versions, version, buf, failAt) ==
    LET vIdx == getVersion(versions, version)
    IN IF vIdx = 0
       THEN Ret(NilObj, FALSE, "Version not registered", <<>>)
       ELSE LET v == versions[vIdx]
                target == IF v.Exemplar # NilExemplar
                          THEN NewStructObj(v.Exemplar)
                          ELSE NewMapObj
                r == SafeDecodeField(target, SpecOf(v), buf)
            IN IF ~r.ok
               THEN Ret(NilObj, FALSE, "Error decoding initial version", <<>>)
               ELSE upgradeLoop(versions, vIdx, r.val, <<>>, failAt)

\* A DecodeObj that reports upgraded = TRUE for every object it returns,
\* also for one of the latest version.
decodeObjFlagged(versions, encObj, toMap, failAt) ==
    IF Len(versions) = 0
    THEN Ret(NilObj, FALSE, "No versions registered", <<>>)
    ELSE LET version == ReadVersion(encObj)
             buf == AfterVersion(encObj)
             v == versions[1]
         IN IF v.Version # version
            THEN upgradeObj(versions, version, buf, failAt)
            ELSE IF v.Exemplar = NilExemplar
            THEN Ret(NilObj, FALSE, "Object version has no exemplar", <<>>)
            ELSE LET target == IF toMap THEN NewMapObj
                               ELSE NewStructObj(v.Exemplar)
                     r == SafeDecodeField(target, SpecOf(v), buf)
                 IN IF ~r.ok
                    THEN Ret(NilObj, FALSE, "Decoding failed", <<>>)
                    ELSE Ret(r.val, TRUE, "", <<>>)

decodeObj(versions, encObj, toMap, failAt) ==
    IF Len(versions) = 0
    THEN Ret(NilObj, FALSE, "No versions registered", <<>>)
    ELSE LET version == ReadVersion(encObj)
             buf == AfterVersion(encObj)
             v == versions[1]
         IN IF v.Version # version
            THEN upgradeObj(versions, version, buf, failAt)
            ELSE IF v.Exemplar = NilExemplar
            THEN Ret(NilObj, FALSE, "Object version has no exemplar", <<>>)
            ELSE LET target == IF toMap \/ v.Exemplar = NilExemplar
                               THEN NewMapObj
                               ELSE NewStructObj(v.Exemplar)
                     r == SafeDecodeField(target, SpecOf(v), buf)
                 IN IF ~r.ok
                    THEN Ret(NilObj, FALSE, "Decoding failed", <<>>)
                    ELSE Ret(r.val, FALSE, "", <<>>)

\* A DecodeInto that decodes bytes of an unregistered version against the
\* latest version's spec.
decodeIntoFallback(versions, encObj, obj) ==
    IF Len(versions) = 0
    THEN [map |-> obj, err |-> "No versions registered"]
    ELSE LET version == ReadVersion(encObj)
             buf == AfterVersion(encObj)
             vIdx == getVersion(versions, version)
             v == IF vIdx = 0 THEN versions[1] ELSE versions[vIdx]
             r == SafeDecodeField(Obj("map", "", obj, <<>>), SpecOf(v), buf)
         IN IF ~r.ok
            THEN [map |-> r.val.fields, err |-> "Decoding failed"]
            ELSE [map |-> ("_version" :> v.Version) @@ r.val.fields, err |-> ""]

\* A DecodeInto that records the latest version number under _version.
decodeIntoLatest(versions, encObj, obj) ==
    IF Len(versions) = 0
    THEN [map |-> obj, err |-> "No versions registered"]
    ELSE LET version == ReadVersion(encObj)
             buf == AfterVersion(encObj)
             vIdx == getVersion(versions, version)
         IN IF vIdx = 0
            THEN [map |-> obj, err |-> "Version not registered"]
            ELSE LET v == versions[vIdx]
                     r == SafeDecodeField(Obj("map", "", obj, <<>>), SpecOf(v), buf)
                 IN IF ~r.ok
                    THEN [map |-> r.val.fields, err |-> "Decoding failed"]
                    ELSE [map |-> ("_version" :> versions[1].Version) @@ r.val.fields,
                          err |-> ""]

\* DecodeInto: the caller's map as the call leaves it, and the error.
decodeInto(versions, encObj, obj) ==
    IF Len(versions) = 0
    THEN [map |-> obj, err |-> "No versions registered"]
    ELSE LET version == ReadVersion(encObj)
             buf == AfterVersion(encObj)
             vIdx == getVersion(versions, version)
         IN IF vIdx = 0
            THEN [map |-> obj, err |-> "Version not registered"]
            ELSE LET v == versions[vIdx]
                     r == SafeDecodeField(Obj("map", "", obj, <<>>), SpecOf(v), buf)
                 IN IF ~r.ok
                    THEN [map |-> r.val.fields, err |-> "Decoding failed"]
                    ELSE [map |-> ("_version" :> v.Version) @@ r.val.fields,
                          err |-> ""]

\* ---------------------------------------------------------------------
\* Inputs of the calls
\* ---------------------------------------------------------------------

\* Externally constructed VersionedTypes handed to LoadType: as decoded
\* from a stored `_type` record, their versions carry a spec but neither
\* exemplar nor upgrader.
LoadVersions ==
    { <<>>, << MkVersion(0, "st0", NilExemplar, NilUpgrader) >> }

LoadInputs ==
    { MkVersionedType(n, t, vs, FALSE) :
        n \in Names, t \in LoadTags, vs \in LoadVersions }

\* The record layout the application gives each version number: version 1
\* adds a field to version 0, version 256 drops it again.
Layout(vers) == IF vers = 1 THEN "st1" ELSE "st0"

\* The Version records handed to AddVersionObj: with and without
\* exemplar, with and without upgrader.
VersionObjInputs ==
    { MkVersion(n, Layout(n), IF withExemplar THEN Layout(n) ELSE NilExemplar, u) :
        n \in VersionNums, withExemplar \in BOOLEAN,
        u \in {NilUpgrader, SomeUpgrader} }

\* The type the versioned-type calls of SpecVT are made on.
VTNames == {"a"}

\* Version prefixes: the numbers AddVersion uses, and 2, which is never
\* registered.
Prefixes == { <<0, 0>>, <<0, 1>>, <<0, 2>>, <<1, 0>> }

\* Object bodies: empty, one byte (all of an st0), two bytes with a valid
\* and with an invalid bool byte (an st1, and not one).
Bodies == { <<>>, <<7>>, <<7, 1>>, <<7, 7>> }

\* Encoded objects: a prefix and a body, or too short to hold a prefix.
EncInputs == { p \o b : p \in Prefixes, b \in Bodies } \cup { <<1>> }

\* The maps a caller hands to DecodeInto.
CallerMaps == { EmptyMap, [Count |-> 9, Old |-> 9] }

\* ---------------------------------------------------------------------
\* The state machine
\* ---------------------------------------------------------------------

Init ==
    /\ Types = NewTypeSet.types
    /\ LastTag = NewTypeSet.lastTag
    /\ regOrder = << TypeTypeName >>
    /\ everLoaded = FALSE
    /\ lastOp = "NewTypeSet"
    /\ argName = ""
    /\ argTag = 0
    /\ argEnc = <<>>
    /\ argToMap = FALSE
    /\ argMap = EmptyMap
    /\ outMap = EmptyMap
    /\ retVT = ""
    /\ retObj = NilObj
    /\ retUpgraded = FALSE
    /\ retErr = ""
    /\ retBool = FALSE
    /\ calls = <<>>
    /\ argObj = NilObj
    /\ argKey = <<>>
    /\ retEnc = <<>>
    /\ encChoices = 0
    /\ retKey = <<>>
    /\ retVersion = <<>>
    /\ argVersion = <<>>
    /\ reEnc = <<>>
    /\ reErr = ""
    /\ argSpec = ""
    /\ argTarget = NilObj

\* The variables a call that encodes nothing and looks up no version
\* leaves at their defaults.
NoEncode ==
    /\ argObj' = NilObj
    /\ argKey' = <<>>
    /\ retEnc' = <<>>
    /\ encChoices' = 0
    /\ retKey' = <<>>
    /\ retVersion' = <<>>
    /\ reEnc' = <<>>
    /\ reErr' = ""
    /\ argSpec' = ""
    /\ argTarget' = NilObj

\* The variable a call other than AddVersion / AddVersionObj leaves at its
\* default.
NoVersionArg == argVersion' = <<>>

\* The variables a call that decodes nothing leaves at their defaults.
NoDecode ==
    /\ NoEncode
    /\ argEnc' = <<>>
    /\ argToMap' = FALSE
    /\ argMap' = EmptyMap
    /\ outMap' = EmptyMap
    /\ retObj' = NilObj
    /\ retUpgraded' = FALSE
    /\ calls' = <<>>

\* The caller is between two calls: the results of the last call have been
\* taken.
Idle == lastOp = ""

\* The caller takes the results of the call it made; the TypeSet stays as
\* the call left it.
Return ==
    /\ ~Idle
    /\ lastOp' = ""
    /\ argName' = ""
    /\ argTag' = 0
    /\ retVT' = ""
    /\ retErr' = ""
    /\ retBool' = FALSE
    /\ NoDecode
    /\ NoVersionArg
    /\ UNCHANGED regVars

\* ts.RegisterType(name)
RegisterType(name) ==
    LET r == registerType(Types, LastTag, name)
    IN /\ Idle
       /\ Types' = r.types
       /\ LastTag' = r.lastTag
       /\ regOrder' = IF name \in DOMAIN Types THEN regOrder
                      ELSE Append(regOrder, name)
       /\ lastOp' = "RegisterType"
       /\ argName' = name
       /\ argTag' = 0
       /\ retVT' = r.vt
       /\ retErr' = ""
       /\ retBool' = FALSE
       /\ NoDecode
       /\ NoVersionArg
       /\ UNCHANGED everLoaded

\* ts.LoadType(vt)
LoadType(vt) ==
    LET r == loadType(Types, LastTag, vt)
    IN /\ Idle
       /\ Types' = r.types
       /\ LastTag' = r.lastTag
       /\ everLoaded' = (everLoaded \/ r.err = "")
       /\ lastOp' = "LoadType"
       /\ argName' = vt.Name
       /\ argTag' = vt.Tag
       /\ retVT' = ""
       /\ retErr' = r.err
       /\ retBool' = FALSE
       /\ NoDecode
       /\ NoVersionArg
       /\ UNCHANGED regOrder

\* vt.AddVersion(vers, exemplar, upgrader) on the type held under name.
AddVersion(name, vers, exemplar, upgrader) ==
    LET r == addVersion(Types[name], vers, exemplar, upgrader)
    IN /\ Idle
       /\ name \in DOMAIN Types
       /\ Len(r.vt.Versions) <= MaxVersions
       /\ Types' = [Types EXCEPT ![name] = r.vt]
       /\ lastOp' = "AddVersion"
       /\ argName' = name
       /\ argTag' = vers
       /\ retVT' = ""
       /\ retErr' = r.err
       /\ retBool' = FALSE
       /\ NoDecode
       /\ argVersion' = << MkVersion(vers, exemplar, exemplar, upgrader) >>
       /\ UNCHANGED <<LastTag, regOrder, everLoaded>>

\* vt.AddVersionObj(v) on the type held under name.
AddVersionObj(name, v) ==
    /\ Idle
    /\ name \in DOMAIN Types
    /\ Len(Types[name].Versions) < MaxVersions
    /\ Types' = [Types EXCEPT ![name].Versions = addVersionObj(@, v)]
    /\ lastOp' = "AddVersionObj"
    /\ argName' = name
    /\ argTag' = v.Version
    /\ retVT' = ""
    /\ retErr' = ""
    /\ retBool' = FALSE
    /\ NoDecode
    /\ argVersion' = << v >>
    /\ UNCHANGED <<LastTag, regOrder, everLoaded>>

\* vt.DecodeObj(encObj, toMap) on the type held under name; failAt chooses
\* which upgrader call, if any, returns an error.
DecodeObj(name, encObj, toMap, failAt) ==
    LET r == decodeObj(Types[name].Versions, encObj, toMap, failAt)
    IN /\ Idle
       /\ name \in DOMAIN Types
       /\ failAt <= Len(r.calls)
       /\ lastOp' = "DecodeObj"
       /\ argName' = name
       /\ argTag' = 0
       /\ argEnc' = encObj
       /\ argToMap' = toMap
       /\ argMap' = EmptyMap
       /\ outMap' = EmptyMap
       /\ retVT' = ""
       /\ retObj' = r.obj
       /\ retUpgraded' = r.upgraded
       /\ retErr' = r.err
       /\ retBool' = FALSE
       /\ calls' = r.calls
       /\ NoEncode
       /\ NoVersionArg
       /\ UNCHANGED regVars

\* vt.DecodeInto(encObj, obj) on the type held under name.
DecodeInto(name, encObj, obj) ==
    LET r == decodeInto(Types[name].Versions, encObj, obj)
    IN /\ Idle
       /\ name \in DOMAIN Types
       /\ lastOp' = "DecodeInto"
       /\ argName' = name
       /\ argTag' = 0
       /\ argEnc' = encObj
       /\ argToMap' = FALSE
       /\ argMap' = obj
       /\ outMap' = r.map
       /\ retVT' = ""
       /\ retObj' = NilObj
       /\ retUpgraded' = FALSE
       /\ retErr' = r.err
       /\ retBool' = FALSE
       /\ calls' = <<>>
       /\ NoEncode
       /\ NoVersionArg
       /\ UNCHANGED regVars

\* The numbers GetVersion is asked for: those AddVersion uses, their
\* neighbours and the ends of the 16-bit range.
LookupNums == VersionNums \cup {2, 255, 257, 65535}

\* vt.GetVersion(version) on the type held under name.
GetVersion(name, version) ==
    LET idx == getVersion(Types[name].Versions, version)
    IN /\ Idle
       /\ name \in DOMAIN Types
       /\ lastOp' = "GetVersion"
       /\ argName' = name
       /\ argTag' = version
       /\ retVT' = ""
       /\ retErr' = ""
       /\ retBool' = FALSE
       /\ argEnc' = <<>>
       /\ argToMap' = FALSE
       /\ argMap' = EmptyMap
       /\ outMap' = EmptyMap
       /\ retObj' = NilObj
       /\ retUpgraded' = FALSE
       /\ calls' = <<>>
       /\ argObj' = NilObj
       /\ argKey' = <<>>
       /\ retEnc' = <<>>
       /\ encChoices' = 0
       /\ retKey' = <<>>
       /\ retVersion' = IF idx = 0 THEN <<>> ELSE << Types[name].Versions[idx] >>
       /\ reEnc' = <<>>
       /\ reErr' = ""
       /\ argSpec' = ""
       /\ argTarget' = NilObj
       /\ NoVersionArg
       /\ UNCHANGED regVars

\* The key strings handed to EncodeKey: empty, ASCII, two-byte UTF-8, and
\* bytes that are no UTF-8.
Keys == { <<>>, <<107>>, <<195, 169>>, <<0, 255>> }

\* vt.EncodeKey(key) on the type held under name.
EncodeKey(name, key) ==
    /\ Idle
    /\ name \in DOMAIN Types
    /\ lastOp' = "EncodeKey"
    /\ argName' = name
    /\ argKey' = key
    /\ retEnc' = encodeKey(Types[name].Tag, key)
    /\ encChoices' = 1
    /\ UNCHANGED <<regVars, argTag, argEnc, argToMap, argMap, outMap, retVT,
                   retObj, retUpgraded, retErr, retBool, calls, argObj,
                   retKey, retVersion, argVersion, reEnc, reErr, argSpec,
                   argTarget>>

\* vt.DecodeKey(encKey) on the bytes the EncodeKey call before returned.
DecodeKey(name) ==
    /\ lastOp = "EncodeKey"
    /\ name = argName
    /\ lastOp' = "DecodeKey"
    /\ retKey' = decodeKey(retEnc)
    /\ UNCHANGED <<regVars, argName, argTag, argEnc, argToMap, argMap, outMap,
                   retVT, retObj, retUpgraded, retErr, retBool, calls, argObj,
                   argKey, retEnc, encChoices, retVersion, argVersion,
                   reEnc, reErr, argSpec, argTarget>>

\* The TypeSet under registration and loading.
Next ==
    \/ \E name \in Names : RegisterType(name)
    \/ \E vt \in LoadInputs : LoadType(vt)
    \/ \E name \in Names, key \in Keys : EncodeKey(name, key)
    \/ \E name \in Names : DecodeKey(name)
    \/ Return

Spec == Init /\ [][Next]_vars

\* One VersionedType, registered on a fresh TypeSet, under versioning and
\* decoding.
InitVT ==
    LET r == registerType(NewTypeSet.types, NewTypeSet.lastTag, "a")
    IN /\ Types = r.types
       /\ LastTag = r.lastTag
       /\ regOrder = << TypeTypeName, "a" >>
       /\ everLoaded = FALSE
       /\ lastOp = "RegisterType"
       /\ argName = "a"
       /\ argTag = 0
       /\ argEnc = <<>>
       /\ argToMap = FALSE
       /\ argMap = EmptyMap
       /\ outMap = EmptyMap
       /\ retVT = "a"
       /\ retObj = NilObj
       /\ retUpgraded = FALSE
       /\ retErr = ""
       /\ retBool = FALSE
       /\ calls = <<>>
       /\ argObj = NilObj
       /\ argKey = <<>>
       /\ retEnc = <<>>
       /\ encChoices = 0
       /\ retKey = <<>>
       /\ retVersion = <<>>
       /\ argVersion = <<>>
       /\ reEnc = <<>>
       /\ reErr = ""
       /\ argSpec = ""
       /\ argTarget = NilObj

NextVT ==
    \/ \E name \in VTNames, vers \in VersionNums,
          up \in {NilUpgrader, SomeUpgrader} :
            AddVersion(name, vers, Layout(vers), up)
    \/ \E name \in VTNames, v \in VersionObjInputs : AddVersionObj(name, v)
    \/ \E name \in VTNames, enc \in EncInputs, toMap \in BOOLEAN,
          failAt \in 0..MaxVersions :
            DecodeObj(name, enc, toMap, failAt)
    \/ \E name \in VTNames, enc \in EncInputs, obj \in CallerMaps :
            DecodeInto(name, enc, obj)
    \/ \E name \in VTNames, version \in LookupNums : GetVersion(name, version)
    \/ Return

SpecVT == InitVT /\ [][NextVT]_vars

\* The values handed to EncodeObj: one or more of each record layout, with
\* an ignored field set, with strings that are empty, ASCII, two-byte
\* UTF-8, no UTF-8, and no UTF-8 unless read together with the byte that
\* follows; with a nil and a set pointer, an empty and a filled sequence
\* and maps of none, one and two entries; and attribute maps with and
\* without the key of st0's field.
StructObj(id, fields) == Obj("struct", id, fields, <<>>)

CodecObjs ==
    { StructObj("st0", [Count |-> 7]),
      StructObj("st1", [Count |-> 7, Skip |-> 5, Flag |-> 1]),
      StructObj("st2", [Name |-> <<>>, Count |-> 0]),
      StructObj("st2", [Name |-> <<107>>, Count |-> 7]),
      StructObj("st2", [Name |-> <<195, 169>>, Count |-> 7]),
      StructObj("st2", [Name |-> <<255>>, Count |-> 7]),
      StructObj("st2", [Name |-> <<195>>, Count |-> 169]),
      StructObj("st3", [Inner |-> <<>>, Items |-> <<>>, Attrs |-> EmptyMap]),
      StructObj("st3", [Inner |-> << StructObj("st0", [Count |-> 3]) >>,
                        Items |-> <<1, 2>>, Attrs |-> (1 :> 2)]),
      StructObj("st3", [Inner |-> <<>>, Items |-> <<>>,
                        Attrs |-> (1 :> 2) @@ (3 :> 4)]),
      Obj("map", "", [Count |-> 7], <<>>),
      NewMapObj }

\* The variables an encoding call leaves at their defaults.
NoDecodeArgs ==
    /\ argTag' = 0
    /\ argEnc' = <<>>
    /\ argToMap' = FALSE
    /\ argMap' = EmptyMap
    /\ outMap' = EmptyMap
    /\ retVT' = ""
    /\ retObj' = NilObj
    /\ retUpgraded' = FALSE
    /\ retBool' = FALSE
    /\ calls' = <<>>
    /\ argKey' = <<>>
    /\ retKey' = <<>>
    /\ retVersion' = <<>>
    /\ reEnc' = <<>>
    /\ reErr' = ""
    /\ argSpec' = ""
    /\ argTarget' = NilObj
    /\ NoVersionArg

\* vt.EncodeObj(obj) on the type held under name; enc is the byte string
\* this run of the call returns.
EncodeObj(name, obj) ==
    LET r == encodeObj(Types[name].Versions, obj)
    IN /\ Idle
       /\ name \in DOMAIN Types
       /\ \E enc \in (IF r.err = "" THEN r.outs ELSE { <<>> }) : retEnc' = enc
       /\ encChoices' = Cardinality(r.outs)
       /\ lastOp' = "EncodeObj"
       /\ argName' = name
       /\ argObj' = obj
       /\ retErr' = r.err
       /\ NoDecodeArgs
       /\ UNCHANGED regVars

\* vt.DecodeObj(enc, toMap) on the bytes the EncodeObj call before
\* returned; no upgrader returns an error.
DecodeEncoded(name, toMap) ==
    LET r == decodeObj(Types[name].Versions, retEnc, toMap, 0)
    IN /\ lastOp = "EncodeObj"
       /\ name = argName
       /\ retErr = ""
       /\ lastOp' = "DecodeObj"
       /\ argEnc' = retEnc
       /\ argToMap' = toMap
       /\ retObj' = r.obj
       /\ retUpgraded' = r.upgraded
       /\ retErr' = r.err
       /\ calls' = r.calls
       /\ UNCHANGED <<regVars, argName, argTag, argMap, outMap, retVT, retBool,
                      argObj, argKey, retEnc, encChoices, retKey, retVersion,
                      argVersion, reEnc, reErr, argSpec, argTarget>>

\* vt.EncodeObj(obj) on the value the DecodeObj call before returned.
ReEncode(name) ==
    LET r == encodeObj(Types[name].Versions, retObj)
    IN /\ lastOp = "DecodeObj"
       /\ name = argName
       /\ argObj # NilObj
       /\ retErr = ""
       /\ lastOp' = "ReEncode"
       /\ \E enc \in (IF r.err = "" THEN r.outs ELSE { <<>> }) : reEnc' = enc
       /\ reErr' = r.err
       /\ UNCHANGED <<regVars, argName, argTag, argEnc, argToMap, argMap,
                      outMap, retVT, retObj, retUpgraded, retErr, retBool,
                      calls, argObj, argKey, retEnc, encChoices, retKey,
                      retVersion, argVersion, argSpec, argTarget>>

\* ts.Type("_type").EncodeObj(vt), vt the type held under name.
EncodeType(name) ==
    LET r == encodeObj(Types[TypeTypeName].Versions,
                       ValueOfVersionedType(Types[name]))
    IN /\ Idle
       /\ name \in DOMAIN Types
       /\ \E enc \in (IF r.err = "" THEN r.outs ELSE { <<>> }) : retEnc' = enc
       /\ encChoices' = Cardinality(r.outs)
       /\ lastOp' = "EncodeType"
       /\ argName' = name
       /\ argObj' = NilObj
       /\ retErr' = r.err
       /\ NoDecodeArgs
       /\ UNCHANGED regVars

\* The version numbers of SpecCodec: their high bytes differ.
CodecNums == {0, 256}

\* One VersionedType, registered on a fresh TypeSet, given versions of any
\* record layout, under encoding and decoding.
NextCodec ==
    \/ \E name \in VTNames, vers \in CodecNums, id \in ExemplarTypes :
            AddVersion(name, vers, id, NilUpgrader)
    \/ \E name \in VTNames, obj \in CodecObjs : EncodeObj(name, obj)
    \/ \E name \in VTNames, toMap \in BOOLEAN : DecodeEncoded(name, toMap)
    \/ \E name \in VTNames : ReEncode(name)
    \/ \E name \in DOMAIN Types : EncodeType(name)
    \/ Return

SpecCodec == InitVT /\ [][NextCodec]_vars

\* ---------------------------------------------------------------------
\* The type-spec builder and the field codec, called on their own
\* ---------------------------------------------------------------------

\* The struct types the field codec is driven with: the record layouts,
\* the one of ignored fields only, the one that refers to itself and an
\* unnamed one, the one with an ignored field of a struct type, and the
\* one with a float32.
FieldSpecs == ExemplarTypes \cup {"ign", "rec", "anonZ", "hid", "flt"}

\* An attribute map whose numbers have the generic Go type goType.
GenericMap(goType, fields) == Obj("map", goType, fields, <<>>)

\* The values handed to EncodeToBytes: those handed to EncodeObj; values
\* and an attribute map with other contents under an ignored field; a value
\* of ignored fields only; a chain of two values of the type that refers
\* to itself; a value of another unnamed type than the one a spec is built
\* from; attribute maps of generic ints and float64s (in halves) that fit
\* a byte, fit two bytes, fit neither and are negative; and a float32 of
\* 7.5 with attribute maps that hold 7.5 and -1.5 as float64 and 7 as int.
FieldObjs ==
    CodecObjs \cup
    { StructObj("st1", [Count |-> 7, Skip |-> 200, Flag |-> 1]),
      StructObj("hid", [Hidden |-> StructObj("st0", [Count |-> 3]), Count |-> 7]),
      Obj("map", "", [Count |-> 7, Skip |-> 200, Flag |-> 1], <<>>),
      StructObj("ign", [Skip |-> 5]),
      StructObj("anonX", [X |-> 7]),
      StructObj("rec", [Inner |-> <<>>]),
      StructObj("rec", [Inner |-> << StructObj("rec", [Inner |-> <<>>]) >>]),
      GenericMap("int", [Count |-> 7]),
      GenericMap("int", [Count |-> 300]),
      GenericMap("int", [Count |-> 65543]),
      GenericMap("int", [Count |-> 0 - 1]),
      GenericMap("float64", [Count |-> 15]),
      GenericMap("float64", [Count |-> 601]),
      GenericMap("float64", [Count |-> 0 - 3]),
      GenericMap("int", [Count |-> 7, Flag |-> 1]),
      StructObj("flt", [Ratio |-> << 64, 240, 0, 0 >>]),
      GenericMap("float64", [Ratio |-> 15]),
      GenericMap("float64", [Ratio |-> 0 - 3]),
      GenericMap("int", [Ratio |-> 7]) }

\* The values handed to DecodeFromBytes to decode into: a fresh value of
\* each record layout, values that have been used before, a fresh
\* attribute map and a used one.
FieldTargets ==
    { NewStructObj(id) : id \in FieldSpecs \cup {"anonX"} } \cup
    { StructObj("st1", [Count |-> 9, Skip |-> 5, Flag |-> 0]),
      StructObj("ign", [Skip |-> 9]),
      StructObj("st3", [Inner |-> << StructObj("st0", [Count |-> 9]) >>,
                        Items |-> <<9>>, Attrs |-> (9 :> 9)]),
      NewMapObj,
      Obj("map", "", [Count |-> 9, Old |-> 9], <<>>) }

\* The variables of the versioned-type calls, which these calls leave at
\* their defaults.
NoTypeCall ==
    /\ argName' = ""
    /\ argTag' = 0
    /\ argToMap' = FALSE
    /\ argMap' = EmptyMap
    /\ outMap' = EmptyMap
    /\ retVT' = ""
    /\ retUpgraded' = FALSE
    /\ retBool' = FALSE
    /\ calls' = <<>>
    /\ argKey' = <<>>
    /\ retKey' = <<>>
    /\ retVersion' = <<>>
    /\ reEnc' = <<>>
    /\ reErr' = ""
    /\ NoVersionArg
    /\ UNCHANGED regVars

\* MakeTypeSpec(exemplar), exemplar a value of the struct type id.
MakeTypeSpecCall(id) ==
    /\ Idle
    /\ lastOp' = "MakeTypeSpec"
    /\ argSpec' = id
    /\ argObj' = NilObj
    /\ argTarget' = NilObj
    /\ argEnc' = <<>>
    /\ retEnc' = <<>>
    /\ encChoices' = 0
    /\ retObj' = NilObj
    /\ retErr' = ""
    /\ NoTypeCall

\* EncodeToBytes(field, ts), ts the spec built from the struct type id; enc
\* is the byte string this run of the call returns.
EncodeToBytes(field, id) ==
    LET outs == SafeEncodeField(field, MakeTypeSpec(id))
    IN /\ Idle
       /\ lastOp' = "EncodeToBytes"
       /\ argSpec' = id
       /\ argObj' = field
       /\ argTarget' = NilObj
       /\ argEnc' = <<>>
       /\ \E enc \in (IF outs = EncPanic THEN { <<>> } ELSE outs) : retEnc' = enc
       /\ encChoices' = Cardinality(outs)
       /\ retObj' = NilObj
       /\ retErr' = IF outs = EncPanic THEN "Encoding failed" ELSE ""
       /\ NoTypeCall

\* DecodeFromBytes(field, ts, enc) on the bytes the EncodeToBytes call
\* before returned, against the same spec; target is what field points to.
DecodeFromBytes(target) ==
    LET r == SafeDecodeField(target, MakeTypeSpec(argSpec), retEnc)
    IN /\ lastOp = "EncodeToBytes"
       /\ retErr = ""
       /\ lastOp' = "DecodeFromBytes"
       /\ argTarget' = target
       /\ argEnc' = retEnc
       /\ retObj' = r.val
       /\ retErr' = IF r.ok THEN "" ELSE "Decoding failed"
       /\ UNCHANGED <<argSpec, argObj, retEnc, encChoices>>
       /\ NoTypeCall

\* The builder and the codec under calls of their own, and EncodeObj on
\* the `_type` type for values that are no VersionedType.
NextField ==
    \/ \E id \in ExemplarTypes \cup SpecTypes : MakeTypeSpecCall(id)
    \/ \E field \in FieldObjs, id \in FieldSpecs : EncodeToBytes(field, id)
    \/ \E target \in FieldTargets : DecodeFromBytes(target)
    \/ \E obj \in CodecObjs : EncodeObj(TypeTypeName, obj)
    \/ Return

SpecField == Init /\ [][NextField]_vars

\* ---------------------------------------------------------------------
\* The calls that only read, on a populated TypeSet
\* ---------------------------------------------------------------------

\* The TypeSet after NewTypeSet and RegisterType("a").
ReadBase == registerType(NewTypeSet.types, NewTypeSet.lastTag, "a")

\* The type "a" after AddVersion(0, st0{}, nil), then after
\* AddVersion(1, st1{}, up), then after AddVersion(256, st0{}, up).
ReadVT1 == addVersion(ReadBase.types["a"], 0, "st0", NilUpgrader).vt
ReadVT2 == addVersion(ReadVT1, 1, "st1", SomeUpgrader).vt
ReadVT3 == addVersion(ReadVT2, 256, "st0", SomeUpgrader).vt

\* The TypeSet with "a" at each of these stages, and at the last of them
\* with a stored type "b" loaded under tag 65535.
ReadLoaded ==
    loadType([ReadBase.types EXCEPT !["a"] = ReadVT3], ReadBase.lastTag,
             MkVersionedType("b", 65535,
                 << MkVersion(0, "st0", NilExemplar, NilUpgrader) >>, FALSE))

PopulatedSets ==
    { [types |-> [ReadBase.types EXCEPT !["a"] = vt],
       lastTag |-> ReadBase.lastTag, everLoaded |-> FALSE] :
        vt \in {ReadBase.types["a"], ReadVT1, ReadVT2, ReadVT3} }
    \cup { [types |-> ReadLoaded.types, lastTag |-> ReadLoaded.lastTag,
            everLoaded |-> TRUE] }

\* The tags HasTag is asked for.
TagInputs == {0, 1, 2, 3, 65535}

\* ts.HasTag(tag)
HasTagCall(tag) ==
    /\ Idle
    /\ lastOp' = "HasTag"
    /\ argName' = ""
    /\ argTag' = tag
    /\ retVT' = ""
    /\ retErr' = ""
    /\ retBool' = HasTag(Types, tag)
    /\ NoDecode
    /\ NoVersionArg
    /\ UNCHANGED regVars

\* A Type that registers the name it does not find, as RegisterType does.
TypeCallRegistering(name) ==
    LET r == registerType(Types, LastTag, name)
    IN /\ Idle
       /\ Types' = r.types
       /\ LastTag' = r.lastTag
       /\ regOrder' = IF name \in DOMAIN Types THEN regOrder
                      ELSE Append(regOrder, name)
       /\ lastOp' = "Type"
       /\ argName' = name
       /\ argTag' = 0
       /\ retVT' = r.vt
       /\ retErr' = ""
       /\ retBool' = FALSE
       /\ NoDecode
       /\ NoVersionArg
       /\ UNCHANGED everLoaded

\* ts.Type(name): the type held under the name; a panic when there is
\* none.
TypeCall(name) ==
    /\ Idle
    /\ lastOp' = "Type"
    /\ argName' = name
    /\ argTag' = 0
    /\ retVT' = IF name \in DOMAIN Types THEN name ELSE ""
    /\ retErr' = IF name \in DOMAIN Types THEN "" ELSE "No such type"
    /\ retBool' = FALSE
    /\ NoDecode
    /\ NoVersionArg
    /\ UNCHANGED regVars

InitRead ==
    /\ \E ts \in PopulatedSets :
          /\ Types = ts.types
          /\ LastTag = ts.lastTag
          /\ everLoaded = ts.everLoaded
    /\ regOrder = << TypeTypeName, "a" >>
    /\ lastOp = ""
    /\ argName = ""
    /\ argTag = 0
    /\ argEnc = <<>>
    /\ argToMap = FALSE
    /\ argMap = EmptyMap
    /\ outMap = EmptyMap
    /\ retVT = ""
    /\ retObj = NilObj
    /\ retUpgraded = FALSE
    /\ retErr = ""
    /\ retBool = FALSE
    /\ calls = <<>>
    /\ argObj = NilObj
    /\ argKey = <<>>
    /\ retEnc = <<>>
    /\ encChoices = 0
    /\ retKey = <<>>
    /\ retVersion = <<>>
    /\ argVersion = <<>>
    /\ reEnc = <<>>
    /\ reErr = ""
    /\ argSpec = ""
    /\ argTarget = NilObj

\* Any sequence of the calls that are said only to read.
NextRead ==
    \/ \E name \in Names, obj \in CodecObjs : EncodeObj(name, obj)
    \/ \E name \in Names, enc \in EncInputs, toMap \in BOOLEAN,
          failAt \in 0..MaxVersions :
            DecodeObj(name, enc, toMap, failAt)
    \/ \E name \in Names, enc \in EncInputs, obj \in CallerMaps :
            DecodeInto(name, enc, obj)
    \/ \E name \in Names, key \in Keys : EncodeKey(name, key)
    \/ \E name \in Names : DecodeKey(name)
    \/ \E name \in Names, version \in LookupNums : GetVersion(name, version)
    \/ \E tag \in TagInputs : HasTagCall(tag)
    \/ \E name \in Names : TypeCall(name)
    \/ Return

SpecRead == InitRead /\ [][NextRead]_vars

\* ---------------------------------------------------------------------
\* Vocabulary of the properties
\* ---------------------------------------------------------------------

\* The Versions list of the type the last call was made on.
CallVersions == Types[argName].Versions

\* The last call was DecodeObj / DecodeInto on bytes that hold a 2-byte
\* version prefix.
DecodeObjCall == lastOp = "DecodeObj" /\ Len(argEnc) >= 2
DecodeIntoCall == lastOp = "DecodeInto" /\ Len(argEnc) >= 2

\* The version prefix of those bytes, big-endian, and the body after it.
Prefix == argEnc[1] * 256 + argEnc[2]
BodyBytes == SubSeq(argEnc, 3, Len(argEnc))

\* The indexes of the records numbered vers, and of those numbered higher.
RecordsOf(vers) == { i \in 1..Len(CallVersions) : CallVersions[i].Version = vers }
RecordsAbove(vers) == { i \in 1..Len(CallVersions) : CallVersions[i].Version > vers }

Registered(vers) == RecordsOf(vers) # {}

\* The highest version number registered (the list is not empty).
LatestVersion ==
    CHOOSE n \in { CallVersions[i].Version : i \in 1..Len(CallVersions) } :
        \A i \in 1..Len(CallVersions) : CallVersions[i].Version <= n

\* The fresh target upgradeObj decodes a record's objects into.
TargetOf(rec) ==
    IF rec.Exemplar # NilExemplar THEN NewStructObj(rec.Exemplar) ELSE NewMapObj

\* The body of the call decodes against the spec of record rec.
BodyDecodes(rec) == SafeDecodeField(NewMapObj, SpecOf(rec), BodyBytes).ok

\* The upgrader calls of the last DecodeObj are those the claim of C1 lists:
\* one per record numbered above the prefix, in ascending version order,
\* the first on the object decoded against the prefix's spec, each next one
\* on what the one before returned, and DecodeObj returns what the last
\* returned.
UpgradeChain ==
    /\ \A n \in VersionNums :
          Cardinality({ k \in 1..Len(calls) : calls[k].version = n })
            = Cardinality({ i \in RecordsAbove(Prefix) : CallVersions[i].Version = n })
    /\ \A k \in 1..Len(calls) : \A l \in 1..Len(calls) :
          k < l => calls[k].version <= calls[l].version
    /\ Len(calls) >= 1
    /\ \E i \in RecordsOf(Prefix) :
          calls[1].arg = SafeDecodeField(TargetOf(CallVersions[i]),
                                         SpecOf(CallVersions[i]), BodyBytes).val
    /\ \A k \in 1..(Len(calls) - 1) : calls[k + 1].arg = calls[k].ret
    /\ \A k \in 1..Len(calls) : ~calls[k].err
    /\ retObj = calls[Len(calls)].ret
    /\ retErr = ""

\* DecodeObj was called on a registered version below the latest, every
\* record above it having an upgrader.
UpgradeCase ==
    /\ DecodeObjCall
    /\ Registered(Prefix)
    /\ Prefix < LatestVersion
    /\ \A i \in RecordsAbove(Prefix) : CallVersions[i].Upgrader # NilUpgrader

\* C1 as stated: in the upgrade case DecodeObj runs the whole chain of
\* upgraders and returns the last one's value.
C1_Original == UpgradeCase => UpgradeChain

\* C1, amended: in the upgrade case, when the body decodes against the spec
\* of the object's version and no upgrader returns an error, DecodeObj
\* invokes the upgrader of every record numbered above the object's version
\* exactly once, in ascending version order, the first on the decoded
\* object, each next one on the value the one before returned, and returns
\* the last one's value.
C1_UpgradeChain ==
    ( /\ UpgradeCase
      /\ \E i \in RecordsOf(Prefix) : BodyDecodes(CallVersions[i])
      /\ \A k \in 1..Len(calls) : ~calls[k].err )
    => UpgradeChain

\* A DecodeObj that ran two upgraders, the second on the first one's value.
C1_Witness ==
    /\ UpgradeCase
    /\ Len(calls) = 2
    /\ retErr = ""
    /\ calls[1].version = 1
    /\ calls[2].version = 256
    /\ retObj.ups = <<1, 256>>

\* The records above the prefix that have no upgrader, and the upgrader
\* calls that returned an error.
MissingAbove == { i \in RecordsAbove(Prefix) : CallVersions[i].Upgrader = NilUpgrader }
FailedCalls == { k \in 1..Len(calls) : calls[k].err }

\* C2: when a record numbered above the object's version has no upgrader,
\* or an upgrader returns an error, DecodeObj returns an error, a nil value
\* and upgraded = FALSE; the failing call is the last one made, and no
\* upgrader is invoked for a version above a record that lacks one.
C2_StopsAtFirstFailure ==
    (DecodeObjCall /\ (MissingAbove # {} \/ FailedCalls # {}))
    => /\ retErr # ""
       /\ retObj = NilObj
       /\ retUpgraded = FALSE
       /\ \A k \in FailedCalls : k = Len(calls)
       /\ \A i \in MissingAbove : \A k \in 1..Len(calls) :
             calls[k].version <= CallVersions[i].Version

\* The upgrader of version 1 returned an error, and the upgrader of a
\* higher version was not invoked.
C2_Witness ==
    /\ DecodeObjCall
    /\ Registered(Prefix)
    /\ Len(calls) = 1
    /\ calls[1].err
    /\ calls[1].version = 1
    /\ \E i \in RecordsAbove(1) : CallVersions[i].Upgrader # NilUpgrader

\* C3: DecodeObj returns upgraded = TRUE exactly when it returns no error
\* and the version prefix differs from the latest registered version; on a
\* prefix equal to the latest version it invokes no upgrader and returns
\* upgraded = FALSE. (With no version registered there is no latest
\* version, and DecodeObj returns an error and upgraded = FALSE.)
C3_UpgradedFlag ==
    DecodeObjCall
    => IF Len(CallVersions) = 0
       THEN retErr # "" /\ retUpgraded = FALSE /\ calls = <<>>
       ELSE /\ retUpgraded = (retErr = "" /\ Prefix # LatestVersion)
            /\ (Prefix = LatestVersion => calls = <<>> /\ retUpgraded = FALSE)

\* A DecodeObj that upgraded, and so returned upgraded = TRUE.
C3_Witness ==
    /\ DecodeObjCall
    /\ retUpgraded = TRUE
    /\ retErr = ""
    /\ Prefix # LatestVersion

\* The records that number the latest version.
LatestRecords == RecordsOf(LatestVersion)

\* C4 as stated, for a body that decodes against the latest spec: on a
\* prefix equal to the latest version DecodeObj returns an attribute map,
\* upgraded = FALSE and no error whenever toMap is set or the latest version
\* has no exemplar, and otherwise a fresh value of the latest exemplar's
\* type.
C4_LatestTarget ==
    ( /\ DecodeObjCall
      /\ Len(CallVersions) > 0
      /\ Prefix = LatestVersion
      /\ \A i \in LatestRecords : BodyDecodes(CallVersions[i]) )
    => IF argToMap \/ \A i \in LatestRecords : CallVersions[i].Exemplar = NilExemplar
       THEN retObj.kind = "map" /\ retUpgraded = FALSE /\ retErr = ""
       ELSE /\ retObj.kind = "struct"
            /\ \E i \in LatestRecords : retObj.type = CallVersions[i].Exemplar

\* C5: on a version prefix that numbers no record, DecodeObj and DecodeInto
\* return an error and invoke no upgrader, and DecodeInto leaves the
\* caller's map as it was.
C5_UnregisteredVersion ==
    ((DecodeObjCall \/ DecodeIntoCall) /\ ~Registered(Prefix))
    => /\ retErr # ""
       /\ calls = <<>>
       /\ (lastOp = "DecodeObj" => retObj = NilObj /\ retUpgraded = FALSE)
       /\ (lastOp = "DecodeInto" => outMap = argMap)

\* A DecodeInto with a map that holds entries, on a prefix above every
\* registered version.
C5_Witness ==
    /\ DecodeIntoCall
    /\ Len(CallVersions) > 0
    /\ Prefix > LatestVersion
    /\ argMap # EmptyMap
    /\ retErr = "Version not registered"

\* The caller's map after a DecodeInto that decoded the body against the
\* spec of record rec: the decoded fields and _version over what it held.
IntoMap(rec) ==
    ("_version" :> rec.Version)
        @@ SafeDecodeField(Obj("map", "", argMap, <<>>), SpecOf(rec), BodyBytes).val.fields

\* C6 as stated: DecodeInto on a registered version decodes the body
\* against that version's spec into the caller's map, sets _version to it
\* and invokes no upgrader.
C6_Original ==
    (DecodeIntoCall /\ Registered(Prefix))
    => /\ \E i \in RecordsOf(Prefix) : outMap = IntoMap(CallVersions[i])
       /\ "_version" \in DOMAIN outMap
       /\ outMap["_version"] = Prefix
       /\ calls = <<>>

\* C6, amended: DecodeInto on bytes of a registered version V whose body
\* decodes against V's spec decodes it into the caller's map, sets _version
\* to V and returns no error; and DecodeInto on any registered version
\* invokes no upgrader.
C6_DecodeInto ==
    (DecodeIntoCall /\ Registered(Prefix))
    => /\ calls = <<>>
       /\ (\A i \in RecordsOf(Prefix) : BodyDecodes(CallVersions[i]))
          => /\ \E i \in RecordsOf(Prefix) : outMap = IntoMap(CallVersions[i])
             /\ "_version" \in DOMAIN outMap
             /\ outMap["_version"] = Prefix
             /\ retErr = ""

\* A DecodeInto of a version-0 object into a map, with a later version
\* registered that has an upgrader.
C6_Witness ==
    /\ DecodeIntoCall
    /\ Prefix = 0
    /\ Registered(0)
    /\ LatestVersion > 0
    /\ \A i \in RecordsAbove(0) : CallVersions[i].Upgrader # NilUpgrader
    /\ retErr = ""
    /\ argMap # EmptyMap
    /\ outMap = [Count |-> 7, Old |-> 9, _version |-> 0]

\* ---------------------------------------------------------------------
\* The TypeSet: names and tags
\* ---------------------------------------------------------------------

C8_TagsUnique ==
    /\ \A n \in DOMAIN Types : \A m \in DOMAIN Types :
          Types[n].Tag = Types[m].Tag => n = m
    /\ \A n \in DOMAIN Types : Types[n].Name = n

\* C9 as stated: every type of the set has a tag of at least 1.
C9_TagsPositive == \A n \in DOMAIN Types : Types[n].Tag >= 1

\* C10: a fresh TypeSet holds the one type _type, with tag 1 and the one
\* version 0, and LastTag = 1; as long as no LoadType succeeded, the k-th
\* new name registered has tag k + 1.
C10_FreshTags ==
    /\ lastOp = "NewTypeSet"
       => /\ DOMAIN Types = {TypeTypeName}
          /\ Types[TypeTypeName].Tag = 1
          /\ Len(Types[TypeTypeName].Versions) = 1
          /\ Types[TypeTypeName].Versions[1].Version = 0
          /\ LastTag = 1
    /\ ~everLoaded
       => /\ regOrder[1] = TypeTypeName
          /\ \A k \in 1..(Len(regOrder) - 1) : Types[regOrder[k + 1]].Tag = k + 1

\* Three new names registered on a fresh TypeSet, the third with tag 4,
\* with a name registered again in between.
C10_Witness ==
    /\ ~everLoaded
    /\ Len(regOrder) = 4
    /\ Types[regOrder[4]].Tag = 4
    /\ lastOp = "RegisterType"
    /\ argName = regOrder[2]

\* C11: LoadType of a type whose tag or name the TypeSet already holds
\* returns an error and leaves Types and LastTag as they were; any other
\* LoadType returns no error, adds the type under its name, leaves the
\* other types as they were and sets LastTag to the larger of LastTag and
\* the type's tag.
C11_LoadType ==
    [][ (lastOp = "" /\ lastOp' = "LoadType")
        => IF HasTag(Types, argTag') \/ argName' \in DOMAIN Types
           THEN /\ retErr' # ""
                /\ Types' = Types
                /\ LastTag' = LastTag
           ELSE /\ retErr' = ""
                /\ DOMAIN Types' = DOMAIN Types \cup {argName'}
                /\ \A n \in DOMAIN Types : Types'[n] = Types[n]
                /\ Types'[argName'] \in LoadInputs
                /\ Types'[argName'].Name = argName'
                /\ Types'[argName'].Tag = argTag'
                /\ LastTag' = IF argTag' > LastTag THEN argTag' ELSE LastTag ]_vars

\* A LoadType that installed a type whose tag is below LastTag.
C11_Witness ==
    /\ lastOp = "LoadType"
    /\ retErr = ""
    /\ argName \in DOMAIN Types
    /\ Types[argName].Tag = argTag
    /\ argTag < LastTag
    /\ LastTag = 65535

\* ---------------------------------------------------------------------
\* The versions list
\* ---------------------------------------------------------------------

\* The list AddVersion / AddVersionObj / GetVersion is about to be called
\* on, in a step that makes the call.
ListBefore == Types[argName'].Versions

\* The first record of that list numbered v (0: there is none).
FirstOf(versions, v) ==
    IF \E i \in 1..Len(versions) : versions[i].Version = v
    THEN CHOOSE i \in 1..Len(versions) :
            /\ versions[i].Version = v
            /\ \A j \in 1..(i - 1) : versions[j].Version # v
    ELSE 0

\* C12 as stated: AddVersion for a number that a record with an exemplar
\* carries returns an error and changes neither the list nor any record.
C12_Duplicate ==
    [][ ( /\ lastOp = "" /\ lastOp' = "AddVersion"
          /\ \E i \in 1..Len(ListBefore) :
                /\ ListBefore[i].Version = argTag'
                /\ ListBefore[i].Exemplar # NilExemplar )
        => /\ retErr' # ""
           /\ Types' = Types ]_vars

\* The look of a record AddVersion takes for a hole.
IsHole(rec) == rec.Exemplar = NilExemplar /\ rec.Upgrader = NilUpgrader

\* What AddVersion does to a hole at index i: the record takes the given
\* exemplar and upgrader and keeps its number and spec, the list keeps its
\* length and every other record, and no error is returned.
FillsInPlace(i) ==
    /\ retErr' = ""
    /\ Len(Types'[argName'].Versions) = Len(ListBefore)
    /\ \A j \in 1..Len(ListBefore) :
          j # i => Types'[argName'].Versions[j] = ListBefore[j]
    /\ Types'[argName'].Versions[i] =
          [ListBefore[i] EXCEPT !.Exemplar = argVersion'[1].Exemplar,
                                !.Upgrader = argVersion'[1].Upgrader]

\* C13 as stated: AddVersion on a number whose record has no exemplar
\* fills that record in place.
C13_Original ==
    [][ ( /\ lastOp = "" /\ lastOp' = "AddVersion"
          /\ \E i \in 1..Len(ListBefore) :
                /\ ListBefore[i].Version = argTag'
                /\ ListBefore[i].Exemplar = NilExemplar )
        => \E i \in 1..Len(ListBefore) :
              /\ ListBefore[i].Version = argTag'
              /\ ListBefore[i].Exemplar = NilExemplar
              /\ FillsInPlace(i) ]_vars

\* C13, amended: AddVersion on a number whose record (the first one of
\* that number, which is the one the lookup finds) has neither exemplar nor
\* upgrader stores the given exemplar and upgrader in that record in place
\* and returns no error; the record's number and spec, the number of
\* records, their order and every other record stay as they were.
C13_FillHole ==
    [][ ( /\ lastOp = "" /\ lastOp' = "AddVersion"
          /\ FirstOf(ListBefore, argTag') # 0
          /\ IsHole(ListBefore[FirstOf(ListBefore, argTag')]) )
        => FillsInPlace(FirstOf(ListBefore, argTag')) ]_vars

\* AddVersion has filled the hole of version 0, below a record of version
\* 1: the record has the exemplar and the upgrader, the list its two
\* records.
C13_Witness ==
    /\ lastOp = "AddVersion"
    /\ retErr = ""
    /\ argTag = 0
    /\ Len(CallVersions) = 2
    /\ CallVersions[1].Version = 1
    /\ CallVersions[2] = MkVersion(0, "st0", "st0", SomeUpgrader)
    /\ argVersion[1].Upgrader = SomeUpgrader

\* C14 as stated: the versions list is strictly descending by version
\* number.
C14_StrictlyDescending ==
    \A n \in DOMAIN Types :
        \A i \in 1..Len(Types[n].Versions) : \A j \in 1..Len(Types[n].Versions) :
            i < j => Types[n].Versions[i].Version > Types[n].Versions[j].Version

\* C15: GetVersion(v) returns a record of the list numbered v when the
\* list holds one, and nil when it holds none. (On the lists AddVersion
\* builds there is at most one record of a number.)
C15_GetVersion ==
    lastOp = "GetVersion"
    => IF \E i \in 1..Len(CallVersions) : CallVersions[i].Version = argTag
       THEN /\ Len(retVersion) = 1
            /\ retVersion[1].Version = argTag
            /\ \E i \in 1..Len(CallVersions) : CallVersions[i] = retVersion[1]
       ELSE retVersion = <<>>

\* GetVersion found the middle record of a list of three, and: GetVersion
\* found no record for a number between two that the list holds.
C15_Witness ==
    /\ lastOp = "GetVersion"
    /\ Len(CallVersions) = 3
    /\ \/ argTag = 1 /\ retVersion = << CallVersions[2] >>
       \/ argTag = 255 /\ retVersion = <<>>
    /\ C14_StrictlyDescending

\* C17: EncodeKey returns the two bytes of the type's tag, high byte
\* first, followed by the bytes of the key, and DecodeKey on that result
\* returns the key.
C17_KeyRoundTrip ==
    /\ lastOp \in {"EncodeKey", "DecodeKey"}
       => /\ Len(retEnc) = Len(argKey) + 2
          /\ retEnc[1] * 256 + retEnc[2] = Types[argName].Tag
          /\ \A i \in 1..Len(argKey) : retEnc[i + 2] = argKey[i]
    /\ lastOp = "DecodeKey" => retKey = argKey

\* DecodeKey returned a key of two bytes that are no UTF-8, encoded under
\* a tag whose two bytes differ.
C17_Witness ==
    /\ lastOp = "DecodeKey"
    /\ argKey = <<0, 255>>
    /\ retKey = <<0, 255>>
    /\ Types[argName].Tag = 3
    /\ retEnc = <<0, 3, 0, 255>>

\* ---------------------------------------------------------------------
\* Encoding and round trips
\* ---------------------------------------------------------------------

\* The record with the highest version number.
Highest(versions) ==
    CHOOSE v \in { versions[i] : i \in 1..Len(versions) } :
        \A i \in 1..Len(versions) : v.Version >= versions[i].Version

\* The names of the fields of a struct value that the codec does not skip.
EncodedFields(obj) ==
    { StructFields(obj.type)[i].Name :
        i \in { j \in 1..Len(StructFields(obj.type)) :
                  ~StructFields(obj.type)[j].Ignore } }

\* DecodeObj was called, for a value of the exemplar's type, on the bytes
\* EncodeObj returned for the struct value x = argObj.
RoundTripCall == lastOp = "DecodeObj" /\ argObj.kind = "struct" /\ ~argToMap

C18_RoundTrip ==
    RoundTripCall =>
        /\ retErr = ""
        /\ ~retUpgraded
        /\ retObj.kind = "struct"
        /\ retObj.type = Types[argName].Versions[1].Exemplar
        /\ retObj.type = argObj.type
        /\ \A f \in EncodedFields(argObj) : retObj.fields[f] = argObj.fields[f]

\* C19: EncodeObj on the value DecodeObj returned for the bytes b of an
\* EncodeObj call returns no error and bytes identical to b.
C19_ReEncode ==
    lastOp = "ReEncode" /\ ~argToMap => reErr = "" /\ reEnc = retEnc

\* C20: the `_type` type's EncodeObj on a registered VersionedType returns
\* no error, and the bytes it returns are the only ones it can return for
\* the types and versions registered.
C20_TypeEncoding ==
    lastOp = "EncodeType" => retErr = "" /\ encChoices = 1

\* ---------------------------------------------------------------------
\* The struct table
\* ---------------------------------------------------------------------

RECURSIVE StructsIn(_)

\* The struct types a Go type names without entering a struct.
StructsIn(typ) ==
    IF typ.kind = Struct THEN { typ.id }
    ELSE UNION { StructsIn(typ.elem[i]) : i \in 1..Len(typ.elem) }

\* The struct types the fields of a struct type name, ignored fields left
\* out.
FieldStructs(id) ==
    UNION { StructsIn(StructFields(id)[i].Type) :
              i \in { j \in 1..Len(StructFields(id)) : ~StructFields(id)[j].Ignore } }

RECURSIVE Closure(_)

Closure(ids) ==
    LET next == ids \cup UNION { FieldStructs(id) : id \in ids }
    IN IF next = ids THEN ids ELSE Closure(next)

\* The struct types reachable from an exemplar of the struct type id
\* through fields that are not ignored.
Reached(id) == Closure({ id })

\* C21: MakeTypeSpec returns for every exemplar type, also one that refers
\* to itself or to a type that refers back, and the struct table of the
\* spec it returns holds exactly one body per struct identity (key)
\* reachable from the exemplar: its keys are the keys of the reachable
\* struct types, none is left without a body, and each body lists the
\* fields of a reachable type of that key, in order.
C21_OneBodyPerIdentity ==
    lastOp = "MakeTypeSpec" =>
        LET ts == MakeTypeSpec(argSpec)
        IN /\ ts.Top = FT(STRUCT_REFERENCE, <<>>, "", StructName(argSpec))
           /\ DOMAIN ts.Structs = { StructName(id) : id \in Reached(argSpec) }
           /\ \A n \in DOMAIN ts.Structs :
                 /\ ts.Structs[n].Kind = Struct
                 /\ \E id \in Reached(argSpec) :
                       /\ StructName(id) = n
                       /\ Len(ts.Structs[n].Elem) = Len(StructFields(id))
                       /\ \A i \in 1..Len(StructFields(id)) :
                             ts.Structs[n].Elem[i].Label = StructFields(id)[i].Name

\* MakeTypeSpec has returned for one of two struct types that refer to
\* each other: the table holds a body for each of the two.
C21_Witness ==
    /\ lastOp = "MakeTypeSpec"
    /\ argSpec = "mA"
    /\ DOMAIN MakeTypeSpec(argSpec).Structs = { "spack/mA", "spack/mB" }
    /\ MakeTypeSpec(argSpec).Structs["spack/mB"].Elem[2] =
           FT(Ptr, << FT(STRUCT_REFERENCE, <<>>, "", "spack/mA") >>, "MA", "")

\* C22: two distinct struct types reachable from one exemplar have
\* different struct identity keys, and the struct table holds a body for
\* each of them.
C22_DistinctKeys ==
    lastOp = "MakeTypeSpec" =>
        /\ \A a, b \in Reached(argSpec) : a # b => StructName(a) # StructName(b)
        /\ Cardinality(DOMAIN MakeTypeSpec(argSpec).Structs)
               = Cardinality(Reached(argSpec))

\* ---------------------------------------------------------------------
\* The field codec on its own
\* ---------------------------------------------------------------------

\* C23: encoding a struct value, or decoding into one, whose type is not
\* the struct type the top node of the spec was built for fails:
\* EncodeToBytes (SafeEncodeField) and DecodeFromBytes (SafeDecodeField)
\* return the error, and EncodeObj returns an error and no bytes.
C23_IdentityMismatch ==
    /\ ( /\ lastOp = "EncodeToBytes"
         /\ argObj.kind = "struct"
         /\ argObj.type # argSpec )
       => retErr = "Encoding failed" /\ retEnc = <<>>
    /\ ( /\ lastOp = "DecodeFromBytes"
         /\ argTarget.kind = "struct"
         /\ argTarget.type # argSpec )
       => retErr = "Decoding failed"
    /\ ( /\ lastOp = "EncodeObj"
         /\ argObj.kind = "struct"
         /\ Len(Types[argName].Versions) > 0
         /\ argObj.type # Types[argName].Versions[1].Spec )
       => retErr = "Encoding failed" /\ retEnc = <<>>

\* EncodeToBytes was handed a value of a type whose first field, Inner, is
\* a pointer, with that pointer nil, and the spec of that type.
NullPointerIn ==
    /\ lastOp \in {"EncodeToBytes", "DecodeFromBytes"}
    /\ argSpec \in {"st3", "rec"}
    /\ argObj.kind = "struct"
    /\ argObj.type = argSpec
    /\ argObj.fields.Inner = <<>>

\* C24: a nil pointer is encoded as the single byte 00, with no payload,
\* and decoding that byte gives nil again: in the field of a struct that
\* is decoded into, and under the field's name in an attribute map that is
\* decoded into.
C24_NullPointer ==
    /\ NullPointerIn =>
          /\ retErr = "" => retEnc[1] = 0
          /\ lastOp = "EncodeToBytes" => retErr = ""
          /\ argSpec = "rec" => retEnc = <<0>>
    /\ ( /\ NullPointerIn
         /\ lastOp = "DecodeFromBytes"
         /\ argTarget.kind = "struct"
         /\ argTarget.type = argSpec )
       => retErr = "" /\ retObj.fields.Inner = <<>>
    /\ ( /\ NullPointerIn
         /\ lastOp = "DecodeFromBytes"
         /\ argTarget.kind = "map"
         /\ retErr = "" )
       => /\ "Inner" \in DOMAIN retObj.fields
          /\ retObj.fields.Inner = NilObj

\* EncodeToBytes was handed an st2, a string followed by a byte, and the
\* spec of st2.
StringIn ==
    /\ lastOp \in {"EncodeToBytes", "DecodeFromBytes"}
    /\ argSpec = "st2"
    /\ argObj.kind = "struct"
    /\ argObj.type = "st2"

\* C25: a string s of any bytes (none, ASCII, multi-byte UTF-8, no UTF-8)
\* is encoded as its length in bytes (one varint byte for a length below
\* 128) followed by exactly its bytes; decoding gives s again and consumes
\* the declared number of bytes, so that the field after it is decoded
\* from its own byte.
C25_StringRoundTrip ==
    /\ StringIn =>
          /\ lastOp = "EncodeToBytes" => retErr = ""
          /\ retEnc = << Len(argObj.fields.Name) >> \o argObj.fields.Name
                          \o << argObj.fields.Count >>
    /\ ( /\ StringIn
         /\ lastOp = "DecodeFromBytes"
         /\ argTarget = NewStructObj("st2") )
       => /\ retErr = ""
          /\ retObj.fields.Name = argObj.fields.Name
          /\ retObj.fields.Count = argObj.fields.Count

\* The names of the fields of a struct value that the codec skips.
IgnoredFields(obj) ==
    { StructFields(obj.type)[i].Name :
        i \in { j \in 1..Len(StructFields(obj.type)) :
                  StructFields(obj.type)[j].Ignore } }

\* EncodeToBytes was handed a value of a type with ignored fields and the
\* spec of that type.
IgnoredIn ==
    /\ lastOp \in {"EncodeToBytes", "DecodeFromBytes"}
    /\ argSpec \in {"st1", "ign", "hid"}
    /\ argObj.kind = "struct"
    /\ argObj.type = argSpec

\* C26: a field marked ignore adds no byte to the encoding, whatever it
\* holds: an st1 (a byte, an ignored byte, a bool) is encoded as its byte
\* and its bool, as a struct and as an attribute map, a struct behind an
\* ignored field is not written, and a struct of ignored fields only is
\* encoded as no bytes, without error. Decoding into a struct of the type
\* leaves its ignored fields as they were and gives every other field the
\* value that was encoded from the field of that name.
C26_IgnoredFields ==
    /\ IgnoredIn =>
          /\ lastOp = "EncodeToBytes" => retErr = ""
          /\ argSpec = "st1" =>
                retEnc = << argObj.fields.Count, argObj.fields.Flag >>
          /\ argSpec = "hid" => retEnc = << argObj.fields.Count >>
          /\ argSpec = "ign" => retEnc = <<>>
    /\ ( /\ lastOp = "EncodeToBytes"
         /\ argSpec = "st1"
         /\ argObj.kind = "map"
         /\ argObj.type = ""
         /\ {"Count", "Flag"} \subseteq DOMAIN argObj.fields )
       => /\ retErr = ""
          /\ retEnc = << argObj.fields.Count, argObj.fields.Flag >>
    /\ ( /\ IgnoredIn
         /\ lastOp = "DecodeFromBytes"
         /\ argTarget.kind = "struct"
         /\ argTarget.type = argSpec )
       => /\ retErr = ""
          /\ \A f \in IgnoredFields(argTarget) :
                retObj.fields[f] = argTarget.fields[f]
          /\ \A f \in EncodedFields(argTarget) :
                retObj.fields[f] = argObj.fields[f]

\* An st1 with 200 in its ignored field was encoded as 07 01 and decoded
\* into an st1 that held 9, 5 (ignored) and false: it now holds 7, 5 and
\* true.
C26_Witness ==
    /\ lastOp = "DecodeFromBytes"
    /\ argSpec = "st1"
    /\ argObj = StructObj("st1", [Count |-> 7, Skip |-> 200, Flag |-> 1])
    /\ retEnc = <<7, 1>>
    /\ argTarget = StructObj("st1", [Count |-> 9, Skip |-> 5, Flag |-> 0])
    /\ retObj = StructObj("st1", [Count |-> 7, Skip |-> 5, Flag |-> 1])

(***************************************************************************)
(* What the upgraders are handed                                           *)
(***************************************************************************)

\* C27: every object handed to an upgrader by DecodeObj is an attribute
\* map, whether or not the version the bytes were written with has an
\* exemplar.
C27_UpgraderArgs ==
    lastOp = "DecodeObj" =>
        \A k \in 1..Len(calls) : calls[k].arg.kind = "map"

(***************************************************************************)
(* The calls that only read                                                *)
(***************************************************************************)

\* What a call that has just been made on the type argName' returned is
\* what that call returns on the TypeSet as it now is.
ResultOfState ==
    /\ lastOp' = "HasTag" => retBool' = HasTag(Types', argTag')
    /\ lastOp' = "Type" =>
          IF argName' \in DOMAIN Types'
          THEN retErr' = "" /\ retVT' = argName'
          ELSE retErr' # ""
    /\ lastOp' = "GetVersion" =>
          LET idx == getVersion(Types'[argName'].Versions, argTag')
          IN retVersion' = IF idx = 0 THEN <<>>
                           ELSE << Types'[argName'].Versions[idx] >>
    /\ lastOp' = "EncodeKey" =>
          retEnc' = encodeKey(Types'[argName'].Tag, argKey')
    /\ lastOp' = "DecodeKey" => retKey' = decodeKey(retEnc')
    /\ lastOp' = "EncodeObj" =>
          LET r == encodeObj(Types'[argName'].Versions, argObj')
          IN /\ retErr' = r.err
             /\ r.err = "" => retEnc' \in r.outs
    /\ lastOp' = "DecodeObj" =>
          \E failAt \in 0..MaxVersions :
              LET r == decodeObj(Types'[argName'].Versions, argEnc',
                                 argToMap', failAt)
              IN /\ retObj' = r.obj
                 /\ retUpgraded' = r.upgraded
                 /\ retErr' = r.err
                 /\ calls' = r.calls
    /\ lastOp' = "DecodeInto" =>
          LET r == decodeInto(Types'[argName'].Versions, argEnc', argMap')
          IN outMap' = r.map /\ retErr' = r.err

WidthOf(id) == IF id = "st0" THEN 1 ELSE 4

\* The name of that field.
NumberOf(id) == IF id = "st0" THEN "Count" ELSE "Ratio"

\* The integer a float64 of h halves is truncated to.
TowardsZero(h) ==
    CHOOSE n \in -512..512 :
        /\ h >= 0 => 2 * n <= h /\ h < 2 * n + 2
        /\ h < 0 => 2 * n >= h /\ h > 2 * n - 2

\* EncodeToBytes was handed an attribute map that holds a generic int or
\* float64 under the name of the one field of the spec's type.
GenericIn ==
    /\ lastOp = "EncodeToBytes"
    /\ argSpec \in {"st0", "flt"}
    /\ argObj.kind = "map"
    /\ argObj.type \in {"int", "float64"}
    /\ DOMAIN argObj.fields = { NumberOf(argSpec) }

\* C29: a value encoded against a fixed-width numeric kind is written in
\* exactly the bytes of that kind: a value of the kind as it is, big-endian,
\* and a generic number out of an attribute map narrowed to the kind, an
\* int x under an 8-bit integer kind as x mod 2^8 and a float64 as its
\* truncation towards zero mod 2^8.
C29_FixedWidth ==
    /\ ( /\ lastOp = "EncodeToBytes"
         /\ argSpec \in {"st0", "flt"}
         /\ argObj.kind = "struct"
         /\ argObj.type = argSpec )
       => /\ retErr = ""
          /\ Len(retEnc) = WidthOf(argSpec)
          /\ argSpec = "st0" => retEnc = << argObj.fields.Count >>
          /\ argSpec = "flt" => retEnc = argObj.fields.Ratio
    /\ GenericIn =>
          /\ retErr = ""
          /\ Len(retEnc) = WidthOf(argSpec)
          /\ (argSpec = "st0" /\ argObj.type = "int") =>
                retEnc = << argObj.fields.Count % 256 >>
          /\ (argSpec = "st0" /\ argObj.type = "float64") =>
                retEnc = << TowardsZero(argObj.fields.Count) % 256 >>

(***************************************************************************)
(* What an inserting AddVersion leaves alone                               *)
(***************************************************************************)

\* How many records of the list are equal to rec.
Occurrences(versions, rec) ==
    Cardinality({ i \in 1..Len(versions) : versions[i] = rec })

\* The records of a list.
RecordsIn(versions) == { versions[i] : i \in 1..Len(versions) }

\* AddVersion is being called with a number no record of the list carries.
InsertingCall ==
    /\ lastOp = ""
    /\ lastOp' = "AddVersion"
    /\ \A i \in 1..Len(ListBefore) : ListBefore[i].Version # argTag'

\* C30: an AddVersion that inserts a new version number returns no error
\* and leaves the type's name and tag, every other type and the last tag
\* as they were; the list afterwards holds every record it held before,
\* with its number, spec, exemplar and upgrader, as often as before, and
\* the one new record, and nothing else: only membership and order of the
\* list change.
C30_InsertFrame ==
    [][ InsertingCall =>
          /\ retErr' = ""
          /\ Types'[argName'].Name = Types[argName'].Name
          /\ Types'[argName'].Tag = Types[argName'].Tag
          /\ DOMAIN Types' = DOMAIN Types
          /\ \A n \in DOMAIN Types \ {argName'} : Types'[n] = Types[n]
          /\ LastTag' = LastTag
          /\ Len(Types'[argName'].Versions) = Len(ListBefore) + 1
          /\ argVersion'[1].Version = argTag'
          /\ Occurrences(Types'[argName'].Versions, argVersion'[1]) = 1
          /\ \A rec \in RecordsIn(ListBefore) :
                Occurrences(Types'[argName'].Versions, rec) =
                    Occurrences(ListBefore, rec) ]_vars

\* AddVersion(1, ...) has put its record between the record numbered 256
\* and the one numbered 0: all three are in the list.
C30_Witness ==
    /\ lastOp = "AddVersion"
    /\ retErr = ""
    /\ argTag = 1
    /\ Len(CallVersions) = 3
    /\ CallVersions[1].Version = 256
    /\ CallVersions[2] = argVersion[1]
    /\ CallVersions[3].Version = 0
    /\ Occurrences(CallVersions, argVersion[1]) = 1

====
